---- MODULE Spec2Model ----
(***************************************************************************)
(* Verification model of the Dashboard-ATCS camera pipeline.               *)
(*                                                                         *)
(* The specifications of this module:                                      *)
(*   SpecAgg - concurrent update_daily_stats calls against the daily_stats *)
(*             collection, in the three variants the repository contains   *)
(*             (app.py, worker1.py, video_processor.py);                   *)
(*   Spec    - app.py: process_camera_stream workers, the frame slots and  *)
(*             the generate_frames viewers;                                *)
(*   SpecVP  - video_processor.py: VideoProcessor start/stop and its       *)
(*             _process_stream thread;                                     *)
(*   SpecSup - start_all_camera_processing;                                *)
(*   SpecScn - app.py: one worker fed single detections, the store going   *)
(*             down and back, and get_stats;                               *)
(*   SpecHist - app.py: one worker over more frames than a history keeps;  *)
(*   SpecFeed - app.py: worker and generators on frames without vehicles;  *)
(*   SpecW1  - worker1.py worker and the get_stats of index.py.            *)
(***************************************************************************)
EXTENDS Integers, Sequences, FiniteSets, TLC

(***************************************************************************)
(* Bounds of the model.                                                    *)
(***************************************************************************)
MaxCalls == 2
MaxFrames == 3
MaxInvocations == 3
MaxConfigLen == 3

(***************************************************************************)
(* Values shared by the specifications.                                    *)
(***************************************************************************)
None == "None"

\* an empty frame slot (output_frames.get(camera_id) is None)
NoFrame == <<>>

Dates == {"d1"}

\* class ids the tracker can hand to the statistics code; 0 stands for any
\* id that CLASS_NAMES_MAP does not contain
ClassIds == {0, 2, 3, 5, 7}

CLASS_NAMES_MAP == (2 :> "car") @@ (3 :> "motorcycle") @@ (5 :> "bus") @@ (7 :> "truck")

CounterFields == {"total_car", "total_motorcycle", "total_bus", "total_truck"}

CounterField(class_name) ==
  CASE class_name = "car" -> "total_car"
    [] class_name = "motorcycle" -> "total_motorcycle"
    [] class_name = "bus" -> "total_bus"
    [] class_name = "truck" -> "total_truck"

EmptyFcn == [f \in {} |-> 0]

(***************************************************************************)
(* The daily_stats collection.  A document is a function from field names  *)
(* to values; the collection is the sequence of its documents in insertion *)
(* order.  An update document names, per update operator, the fields it    *)
(* touches and the operand.                                                *)
(***************************************************************************)
UpdateDoc(inc, push, set, setOnInsert) ==
  [inc |-> inc, push |-> push, set |-> set, setOnInsert |-> setOnInsert]

\* The server refuses an update that names one path under two operators
\* ("Updating the path would create a conflict").
Conflict(u) ==
  \/ (DOMAIN u.inc) \cap (DOMAIN u.setOnInsert) # {}
  \/ (DOMAIN u.push) \cap (DOMAIN u.setOnInsert) # {}
  \/ (DOMAIN u.set) \cap (DOMAIN u.setOnInsert) # {}
  \/ (DOMAIN u.inc) \cap (DOMAIN u.push) # {}
  \/ (DOMAIN u.inc) \cap (DOMAIN u.set) # {}
  \/ (DOMAIN u.push) \cap (DOMAIN u.set) # {}

Matches(doc, query) ==
  \A f \in DOMAIN query : f \in DOMAIN doc /\ doc[f] = query[f]

MatchingIdx(coll, query) == {i \in 1..Len(coll) : Matches(coll[i], query)}

Min(S) == CHOOSE x \in S : \A y \in S : x <= y

ApplyUpdateDecrement(doc, u) ==
  [f \in (DOMAIN doc) \cup (DOMAIN u.inc) \cup (DOMAIN u.push) \cup (DOMAIN u.set) |->
     IF f \in DOMAIN u.inc
       THEN (IF f \in DOMAIN doc THEN doc[f] ELSE 0) - u.inc[f]
     ELSE IF f \in DOMAIN u.push
       THEN Append(IF f \in DOMAIN doc THEN doc[f] ELSE <<>>, u.push[f])
     ELSE IF f \in DOMAIN u.set
       THEN u.set[f]
     ELSE doc[f]]

\* the operators of u applied to an existing document
ApplyUpdate(doc, u) ==
  [f \in (DOMAIN doc) \cup (DOMAIN u.inc) \cup (DOMAIN u.push) \cup (DOMAIN u.set) |->
     IF f \in DOMAIN u.inc
       THEN (IF f \in DOMAIN doc THEN doc[f] ELSE 0) + u.inc[f]
     ELSE IF f \in DOMAIN u.push
       THEN Append(IF f \in DOMAIN doc THEN doc[f] ELSE <<>>, u.push[f])
     ELSE IF f \in DOMAIN u.set
       THEN u.set[f]
     ELSE doc[f]]

\* the document an upsert inserts: the equality fields of the query, the
\* $setOnInsert fields, then the other operators; a query that does not name
\* _id gets a server-generated one (oid)
InsertedDoc(query, u, oid) ==
  LET base == [f \in (DOMAIN query) \cup (DOMAIN u.setOnInsert) \cup {"_id"} |->
                 IF f \in DOMAIN u.setOnInsert THEN u.setOnInsert[f]
                 ELSE IF f \in DOMAIN query THEN query[f]
                 ELSE oid]
  IN ApplyUpdate(base, u)

\* update_one(query, u, upsert=True) on a matching document
UpdateFirst(coll, query, u) ==
  LET i == Min(MatchingIdx(coll, query))
  IN [coll EXCEPT ![i] = ApplyUpdate(coll[i], u)]

\* The insert half of an upsert whose match found no document.  The unique
\* index on _id makes the server fall back to an update when another upsert
\* has inserted the same _id meanwhile; no other field of daily_stats has a
\* unique index (the repository creates none), so a query on camera_id and
\* date inserts whatever other upserts did in between.
UpsertInsert(coll, query, u, oid) ==
  IF "_id" \in DOMAIN query /\ MatchingIdx(coll, query) # {}
    THEN UpdateFirst(coll, query, u)
    ELSE Append(coll, InsertedDoc(query, u, oid))

\* update_one(query, u, upsert=True) executed without interference
UpdateOne(coll, query, u, oid) ==
  IF MatchingIdx(coll, query) # {}
    THEN UpdateFirst(coll, query, u)
    ELSE UpsertInsert(coll, query, u, oid)

\* what find_one returns when no document matches (Python None)
NoDoc == EmptyFcn

\* find_one(query)
FindOne(coll, query) ==
  IF MatchingIdx(coll, query) = {} THEN NoDoc
  ELSE coll[Min(MatchingIdx(coll, query))]

(***************************************************************************)
(* The update commands the variants of update_daily_stats build.           *)
(***************************************************************************)
ZeroCounters == [f \in CounterFields |-> 0]

\* doc_id = f"{camera_id}_{today_str}"
DocId(camera_id, today_str) == <<camera_id, "_", today_str>>

AppQuery(camera_id, today_str) == ("_id" :> DocId(camera_id, today_str))

AppUpdate(camera_id, today_str, vehicle_type_key, speed) ==
  UpdateDoc((CounterField(vehicle_type_key) :> 1),
            ("speeds" :> speed),
            EmptyFcn,
            ("camera_id" :> camera_id) @@ ("date" :> today_str)
              @@ ("processed_at" :> "time") @@ ZeroCounters)

FieldsQuery(camera_id, today_str) == ("camera_id" :> camera_id) @@ ("date" :> today_str)

Worker1InitialCountsKept(field_to_increment) ==
  [f \in CounterFields |-> 0]

\* worker1.py: the incremented field is deleted from initial_counts
Worker1InitialCounts(field_to_increment) ==
  [f \in CounterFields \ {field_to_increment} |-> 0]

Worker1Update(camera_id, today_str, vehicle_type_key) ==
  LET field_to_increment == CounterField(vehicle_type_key)
  IN UpdateDoc((field_to_increment :> 1),
               EmptyFcn,
               EmptyFcn,
               ("guid" :> "uuid4") @@ ("camera_id" :> camera_id) @@ ("date" :> today_str)
                 @@ ("average_speed" :> 0) @@ ("created_at" :> "time")
                 @@ Worker1InitialCounts(field_to_increment))

\* video_processor.py: two update_one calls
VPInitUpdate(camera_id, today) ==
  UpdateDoc(EmptyFcn, EmptyFcn, EmptyFcn, ("guid" :> <<"VIDEO", camera_id, today>>))

VPIncUpdate(class_name) ==
  UpdateDoc((CounterField(class_name) :> 1), EmptyFcn, ("processed_at" :> "time"), EmptyFcn)

(***************************************************************************)
(* State.                                                                  *)
(***************************************************************************)
VARIABLES
  stats_collection,   \* the daily_stats documents, in insertion order
  collection_bool,    \* what bool(Collection) does in the installed pymongo
  today,              \* datetime.now().strftime("%Y-%m-%d")
  variant,            \* SpecAgg: which update_daily_stats the writers run
  wpc,                \* SpecAgg: position of each writer in its call
  wreq,               \* SpecAgg: arguments of the call in progress
  ncalls,             \* SpecAgg: calls each writer has issued
  issued,             \* SpecAgg: calls issued per (camera, date, counter)
  raised,             \* SpecAgg: calls that ended in an exception
  pc,                 \* app.py: position of each process_camera_stream thread
  cap,                \* app.py: the thread's cv2.VideoCapture
  line_y,             \* app.py: int(height * line_position_ratio)
  fps,                \* app.py: fps of the connection
  track_history,      \* app.py: track id -> recent positions
  frameNo,            \* app.py: frames the source has delivered so far
  cur,                \* app.py: the frame being processed (annotated_frame)
  output_frames,      \* app.py: camera id -> encoded frame
  frame_locks,        \* app.py: camera id -> holder of the camera's Lock
  lastExit,           \* app.py: how the thread last left the try block
  backedOff,          \* app.py: a sleep has run since lastExit
  openFails,          \* app.py: consecutive failed opens
  crossed,            \* app.py: crossings detected per camera and counter
  lastCrossed,        \* app.py: tracks whose crossing the last frame detected
  lastPublished,      \* app.py: the frame of the last completed publish
  vpc,                \* app.py: position of each generate_frames generator
  vframe,             \* app.py: the generator's local variable frame
  emits,              \* app.py: the parts each generator has yielded
  is_running,         \* VideoProcessor.is_running
  thread,             \* VideoProcessor.thread
  vp_collection,      \* VideoProcessor.stats_collection (None or the collection)
  daily_stats,        \* VideoProcessor.daily_stats
  latest_frame,       \* VideoProcessor.latest_frame
  vp_history,         \* VideoProcessor.track_history
  vp_frameNo,         \* frames the processor's source has delivered
  tpc,                \* position of each _process_stream thread
  tcap,               \* the thread's cv2.VideoCapture
  tline_y,            \* the thread's line_y
  tfps,               \* the thread's fps
  kpc,                \* position of each caller of start() / stop()
  kjoin,              \* the thread a stop() caller is joining
  nops,               \* start() and stop() calls made so far
  processing_threads, \* camera ids that have a registered thread
  started,            \* Thread.start() calls per camera id
  seen,               \* camera ids the camera lists have contained
  lastConfigs,        \* the camera list of the last invocation
  invocations,        \* start_all_camera_processing calls so far
  store_up,           \* the MongoDB server answers
  response,           \* what the last get_stats request returned
  delivered,          \* the detections the tracker has reported, in order
  appended,           \* positions appended per track since its entry was created
  lost,               \* worker1.py: crossings whose store write failed
  reported_fps,       \* what cap.get(cv2.CAP_PROP_FPS) returned at the last connect
  lock_objects,       \* the Lock objects created so far: lock -> holder
  lock_index,         \* the entries of the frame_locks defaultdict: camera -> lock
  got_lock            \* the lock each thread got from frame_locks[camera_id]

storeVars == <<stats_collection, collection_bool, today>>
aggVars == <<variant, wpc, wreq, ncalls, issued, raised>>
workerVars == <<pc, cap, line_y, fps, track_history, frameNo, cur, lastExit, backedOff,
                openFails, crossed, lastCrossed>>
frameVars == <<output_frames, frame_locks, lastPublished>>
viewerVars == <<vpc, vframe, emits>>
appVars == <<workerVars, frameVars, viewerVars>>
supVars == <<processing_threads, started, seen, lastConfigs, invocations>>
scnVars == <<store_up, response, delivered, appended, lost>>
auxVars == <<reported_fps, lock_objects, lock_index, got_lock>>
vpVars == <<is_running, thread, vp_collection, daily_stats, latest_frame, vp_history,
            vp_frameNo, tpc, tcap, tline_y, tfps, kpc, kjoin, nops>>

(***************************************************************************)
(* SpecAgg: writers calling update_daily_stats concurrently.               *)
(***************************************************************************)
Writers == {"w1", "w2"}

AppCameras == {"c1"}

Viewers == {"v1", "v2"}

\* the Thread objects start() can create, in creation order
ThreadSeq == <<"t1", "t2">>

Threads == {ThreadSeq[i] : i \in DOMAIN ThreadSeq}

Callers == {"k1"}

Variants == {"app", "worker1", "video_processor"}

AggCameras == {"c1"}

NoReq == [camera_id |-> None, today |-> None, class_id |-> 0]

AggKeys == AggCameras \X Dates \X CounterFields

\* the filter and the update of the (first) update_one of a call
QueryOf(v, r) ==
  IF v = "app" THEN AppQuery(r.camera_id, r.today)
  ELSE FieldsQuery(r.camera_id, r.today)

FirstUpdateOf(v, r) ==
  CASE v = "app" -> AppUpdate(r.camera_id, r.today, CLASS_NAMES_MAP[r.class_id], 0)
    [] v = "worker1" -> Worker1Update(r.camera_id, r.today, CLASS_NAMES_MAP[r.class_id])
    [] v = "video_processor" -> VPInitUpdate(r.camera_id, r.today)

Oid(coll) == <<"oid", Len(coll) + 1>>

InitStore ==
  /\ stats_collection = <<>>
  /\ today \in Dates

\* the app.py threads and generators before any of them exists
IdleApp ==
  /\ pc = [c \in AppCameras |-> "unstarted"]
  /\ cap = [c \in AppCameras |-> "unset"]
  /\ line_y = [c \in AppCameras |-> 0]
  /\ fps = [c \in AppCameras |-> 0]
  /\ track_history = [c \in AppCameras |-> EmptyFcn]
  /\ frameNo = [c \in AppCameras |-> 0]
  /\ cur = [c \in AppCameras |-> 0]
  /\ lastExit = [c \in AppCameras |-> "none"]
  /\ backedOff = [c \in AppCameras |-> FALSE]
  /\ openFails = [c \in AppCameras |-> 0]
  /\ crossed = [k \in AppCameras \X CounterFields |-> 0]
  /\ lastCrossed = [c \in AppCameras |-> {}]
  /\ output_frames = [c \in AppCameras |-> NoFrame]
  /\ frame_locks = [c \in AppCameras |-> None]
  /\ lastPublished = [c \in AppCameras |-> NoFrame]
  /\ vpc = [v \in Viewers |-> "unstarted"]
  /\ vframe = [v \in Viewers |-> NoFrame]
  /\ emits = [v \in Viewers |-> <<>>]

\* values of camera.get("camera_id"): missing, empty, or an id
ConfigIds == {None, "", "c1", "c2"}

\* the supervisor before its first call
IdleSup ==
  /\ processing_threads = {}
  /\ started = [id \in ConfigIds |-> 0]
  /\ seen = {}
  /\ lastConfigs = <<>>
  /\ invocations = 0

\* no request answered and no sample processed yet
NoResponse == [route |-> None, status |-> 0, body |-> EmptyFcn, reached |-> FALSE]

IdleRequests ==
  /\ store_up = TRUE
  /\ response = NoResponse
  /\ delivered = <<>>
  /\ appended = EmptyFcn
  /\ lost = 0

\* no source asked for its frame rate, no frame lock created
IdleAux ==
  /\ reported_fps = 0
  /\ lock_objects = EmptyFcn
  /\ lock_index = EmptyFcn
  /\ got_lock = EmptyFcn

IdleScn ==
  /\ IdleRequests
  /\ IdleAux

\* a VideoProcessor that nobody has constructed
IdleVP ==
  /\ is_running = FALSE
  /\ thread = None
  /\ vp_collection = None
  /\ daily_stats = ZeroCounters
  /\ latest_frame = NoFrame
  /\ vp_history = EmptyFcn
  /\ vp_frameNo = 0
  /\ tpc = [t \in Threads |-> "unborn"]
  /\ tcap = [t \in Threads |-> "unset"]
  /\ tline_y = [t \in Threads |-> 0]
  /\ tfps = [t \in Threads |-> 0]
  /\ kpc = [k \in Callers |-> "idle"]
  /\ kjoin = [k \in Callers |-> None]
  /\ nops = 0

\* what the actions of SpecAgg leave alone
aggFrame == <<appVars, vpVars, supVars, scnVars, auxVars>>

InitAgg ==
  /\ InitStore
  /\ IdleApp
  /\ IdleVP
  /\ IdleSup
  /\ IdleScn
  /\ variant \in Variants
  /\ collection_bool \in (IF variant = "video_processor" THEN {"truthy", "raises"} ELSE {"truthy"})
  /\ wpc = [w \in Writers |-> "idle"]
  /\ wreq = [w \in Writers |-> NoReq]
  /\ ncalls = [w \in Writers |-> 0]
  /\ issued = [k \in AggKeys |-> 0]
  /\ raised = 0

AggReturn(w) ==
  /\ wpc' = [wpc EXCEPT ![w] = "idle"]
  /\ wreq' = [wreq EXCEPT ![w] = NoReq]

\* the match half of update_one(query, u, upsert=True): an update of the
\* first matching document, or the decision to insert
AggUpdateOne(w, r, u, insertPc, nextPc) ==
  IF MatchingIdx(stats_collection, QueryOf(variant, r)) # {}
    THEN /\ stats_collection' = UpdateFirst(stats_collection, QueryOf(variant, r), u)
         /\ wpc' = [wpc EXCEPT ![w] = nextPc]
         /\ wreq' = [wreq EXCEPT ![w] = IF nextPc = "idle" THEN NoReq ELSE r]
    ELSE /\ stats_collection' = stats_collection
         /\ wpc' = [wpc EXCEPT ![w] = insertPc]
         /\ wreq' = [wreq EXCEPT ![w] = r]

\* update_daily_stats(camera_id, class_id[, speed]) up to its first store step
AggRecord(w, cam, cls) ==
  LET r == [camera_id |-> cam, today |-> today, class_id |-> cls]
      monitored == cls \in DOMAIN CLASS_NAMES_MAP
  IN
  /\ wpc[w] = "idle"
  /\ ncalls[w] < MaxCalls
  /\ ncalls' = [ncalls EXCEPT ![w] = @ + 1]
  /\ issued' = IF monitored
                 THEN [issued EXCEPT ![<<cam, today, CounterField(CLASS_NAMES_MAP[cls])>>] = @ + 1]
                 ELSE issued
  /\ \/ \* video_processor.py: "if not self.stats_collection" raises
        \* NotImplementedError where Collection defines __bool__ that way
        /\ variant = "video_processor" /\ collection_bool = "raises"
        /\ raised' = raised + 1
        /\ UNCHANGED <<stats_collection, wpc, wreq>>
     \/ \* a class CLASS_NAMES_MAP does not contain: return
        /\ ~(variant = "video_processor" /\ collection_bool = "raises")
        /\ ~monitored
        /\ UNCHANGED <<stats_collection, wpc, wreq, raised>>
     \/ \* the server refuses the update (WriteError); worker1.py catches
        \* it, the other variants let it out
        /\ ~(variant = "video_processor" /\ collection_bool = "raises")
        /\ monitored
        /\ Conflict(FirstUpdateOf(variant, r))
        /\ raised' = IF variant = "worker1" THEN raised ELSE raised + 1
        /\ UNCHANGED <<stats_collection, wpc, wreq>>
     \/ /\ ~(variant = "video_processor" /\ collection_bool = "raises")
        /\ monitored
        /\ ~Conflict(FirstUpdateOf(variant, r))
        /\ raised' = raised
        /\ AggUpdateOne(w, r, FirstUpdateOf(variant, r), "insert",
                        IF variant = "video_processor" THEN "second" ELSE "idle")
  /\ UNCHANGED <<collection_bool, today, variant>>
  /\ UNCHANGED aggFrame

\* the insert half of the first update_one
AggInsert(w) ==
  /\ wpc[w] = "insert"
  /\ stats_collection' = UpsertInsert(stats_collection, QueryOf(variant, wreq[w]),
                                      FirstUpdateOf(variant, wreq[w]), Oid(stats_collection))
  /\ IF variant = "video_processor"
       THEN /\ wpc' = [wpc EXCEPT ![w] = "second"]
            /\ wreq' = wreq
       ELSE AggReturn(w)
  /\ UNCHANGED <<collection_bool, today, variant, ncalls, issued, raised>>
  /\ UNCHANGED aggFrame

\* video_processor.py: the second update_one(query, update, upsert=True); the
\* first one has left a matching document, and nothing deletes documents
AggSecond(w) ==
  /\ wpc[w] = "second"
  /\ stats_collection' = UpdateOne(stats_collection, QueryOf(variant, wreq[w]),
                                   VPIncUpdate(CLASS_NAMES_MAP[wreq[w].class_id]),
                                   Oid(stats_collection))
  /\ AggReturn(w)
  /\ UNCHANGED <<collection_bool, today, variant, ncalls, issued, raised>>
  /\ UNCHANGED aggFrame

NextAgg ==
  \/ \E w \in Writers, cam \in AggCameras, cls \in ClassIds : AggRecord(w, cam, cls)
  \/ \E w \in Writers : AggInsert(w)
  \/ \E w \in Writers : AggSecond(w)

vars == <<storeVars, aggVars, appVars, vpVars, supVars, scnVars, auxVars>>

SpecAgg == InitAgg /\ [][NextAgg]_vars

AggQuiescent == \A w \in Writers : wpc[w] = "idle"

\* the value of counter f in the aggregate a query for (cam, d) returns
CounterOf(coll, v, cam, d, f) ==
  LET doc == FindOne(coll, IF v = "app" THEN AppQuery(cam, d) ELSE FieldsQuery(cam, d))
  IN IF doc = NoDoc THEN 0 ELSE IF f \in DOMAIN doc THEN doc[f] ELSE 0

DocsOf(coll, cam, d) ==
  {i \in 1..Len(coll) : Matches(coll[i], FieldsQuery(cam, d))
                          \/ Matches(coll[i], AppQuery(cam, d))}

\* C2: when all calls have returned, every class counter of the aggregate of
\* (camera_id, date) equals the number of update_daily_stats calls issued for
\* that class (app.py and video_processor.py)
C2_NoLostIncrement ==
  (variant \in {"app", "video_processor"} /\ AggQuiescent) =>
     \A k \in AggKeys :
        CounterOf(stats_collection, variant, k[1], k[2], k[3]) = issued[k]

\* C3: the collection never holds two documents for one (camera_id, date)
C3_OneDocPerKey ==
  \A cam \in AggCameras, d \in Dates :
     Cardinality(DocsOf(stats_collection, cam, d)) <= 1

\* C4: every document a query can observe holds all four counters, the
\* recorded classes at >= 1 and the never-recorded classes at 0
C4_DocHasAllCounters ==
  \A i \in 1..Len(stats_collection) :
     LET doc == stats_collection[i]
     IN /\ CounterFields \subseteq DOMAIN doc
        /\ \A cam \in AggCameras, d \in Dates, f \in CounterFields :
              i \in DocsOf(stats_collection, cam, d) =>
                 /\ issued[<<cam, d, f>>] = 0 => doc[f] = 0
                 /\ doc[f] >= 1 => issued[<<cam, d, f>>] >= 1

\* the value a reader finds for counter f in document doc
FieldOr0(doc, f) == IF f \in DOMAIN doc THEN doc[f] ELSE 0

\* C15: no store step lowers a counter: every step of any writer leaves each
\* total_<class> of each document, and of the aggregate a query for
\* (camera_id, date) returns, unchanged or larger by exactly 1, and removes
\* no document
C15_CountersNeverDecrease ==
  [][/\ Len(stats_collection') >= Len(stats_collection)
     /\ \A i \in 1..Len(stats_collection), f \in CounterFields :
           FieldOr0(stats_collection'[i], f) - FieldOr0(stats_collection[i], f) \in {0, 1}
     /\ \A i \in (Len(stats_collection) + 1)..Len(stats_collection'), f \in CounterFields :
           FieldOr0(stats_collection'[i], f) \in {0, 1}
     /\ \A k \in AggKeys :
           CounterOf(stats_collection', variant, k[1], k[2], k[3])
             - CounterOf(stats_collection, variant, k[1], k[2], k[3]) \in {0, 1}]_vars

C15_Witness ==
  /\ variant = "worker1"
  /\ \E k \in AggKeys : CounterOf(stats_collection, variant, k[1], k[2], k[3]) >= 2
  /\ \E w \in Writers : wpc[w] = "insert"

(***************************************************************************)
(* app.py: process_camera_stream.                                          *)
(***************************************************************************)
\* at most this many positions are kept per track
HistoryLimit == 30

Heights == {4}

SourceFps == {0, 30}

TrackIds == {1}

Xs == {0}

Ys == {1, 2, 3}

MaxDets == 1

MaxOpenFails == 3

MaxEmits == 1

\* line_y = int(height * line_position_ratio), calibration_line_position 0.5
LineY(height) == (height * 5) \div 10

\* fps = int(cap.get(cv2.CAP_PROP_FPS)); if fps == 0: fps = 25
ConnectFps(reported) == IF reported = 0 THEN 25 ELSE reported

AfterOpenUnchecked(opened) == "read"

\* the try block after cv2.VideoCapture: a source that did not open sends
\* the thread to time.sleep(10) and continue, an open one to the read loop
AfterOpen(opened) == IF opened THEN "read" ELSE "backoff10"

ExceptPcUncaught == "terminated"

\* except Exception: the thread sleeps 5 s and stays in the while True loop
ExceptPc == "backoff5"

\* the crossing test on two consecutive samples
Crosses(prev_y, curr_y, ly) ==
  \/ (prev_y < ly /\ curr_y >= ly)
  \/ (prev_y > ly /\ curr_y <= ly)

RECURSIVE IsqrtFrom(_, _)
IsqrtFrom(n, r) == IF (r + 1) * (r + 1) > n THEN r ELSE IsqrtFrom(n, r + 1)

\* math.sqrt, exact on the perfect squares the model feeds it
Isqrt(n) == IsqrtFrom(n, 0)

\* speed_kmh = (distance_pixels * pixel_to_meter * fps) * 3.6 with
\* pixel_to_meter = 0.1, in hundredths of km/h
SpeedKmh(p, q, f) ==
  Isqrt((q[1] - p[1]) * (q[1] - p[1]) + (q[2] - p[2]) * (q[2] - p[2])) * f * 36

AppendPositionDropNewest(th, track_id, center) ==
  LET old == IF track_id \in DOMAIN th THEN th[track_id] ELSE <<>>
      new == Append(old, center)
      kept == IF Len(new) > HistoryLimit THEN SubSeq(new, 1, HistoryLimit) ELSE new
  IN [t \in (DOMAIN th) \cup {track_id} |-> IF t = track_id THEN kept ELSE th[t]]

\* track = track_history[track_id]; track.append(center);
\* if len(track) > 30: track.pop(0)
AppendPosition(th, track_id, center) ==
  LET old == IF track_id \in DOMAIN th THEN th[track_id] ELSE <<>>
      new == Append(old, center)
      kept == IF Len(new) > HistoryLimit THEN Tail(new) ELSE new
  IN [t \in (DOMAIN th) \cup {track_id} |-> IF t = track_id THEN kept ELSE th[t]]

PopTrackClear(th, track_id) == EmptyFcn

\* track_history.pop(track_id, None)
PopTrack(th, track_id) == [t \in (DOMAIN th) \ {track_id} |-> th[t]]

Detections == [track_id : TrackIds, cls : ClassIds, x : Xs, y : Ys]

RECURSIVE DetLists(_)
DetLists(n) ==
  IF n = 0 THEN {<<>>}
  ELSE DetLists(n - 1) \cup
       {Append(l, d) : l \in {m \in DetLists(n - 1) : Len(m) = n - 1},
                       d \in Detections}

\* the tracker reports a track id at most once per frame
DetInputs ==
  {l \in DetLists(MaxDets) :
      \A i, j \in 1..Len(l) : l[i].track_id = l[j].track_id => i = j}

Faults == {"none", "detector", "annotate", "store"}

AppUpdateDailyStatsUnfiltered(coll, camera_id, today_str, class_id, speed, storeUp) ==
  IF ~storeUp THEN [coll |-> coll, exc |-> TRUE]
  ELSE [coll |-> UpdateOne(coll, AppQuery(camera_id, today_str),
                           UpdateDoc(("total_other" :> 1), EmptyFcn, EmptyFcn, EmptyFcn),
                           Oid(coll)),
        exc |-> FALSE]

\* update_daily_stats(camera_id, class_id, speed) of app.py as one store
\* step (the filter is the unique _id); exc tells that it raised
AppUpdateDailyStats(coll, camera_id, today_str, class_id, speed, storeUp) ==
  IF class_id \notin DOMAIN CLASS_NAMES_MAP
    THEN [coll |-> coll, exc |-> FALSE]
  ELSE IF ~storeUp \/ Conflict(AppUpdate(camera_id, today_str, CLASS_NAMES_MAP[class_id], speed))
    THEN [coll |-> coll, exc |-> TRUE]
  ELSE [coll |-> UpdateOne(coll, AppQuery(camera_id, today_str),
                           AppUpdate(camera_id, today_str, CLASS_NAMES_MAP[class_id], speed),
                           Oid(coll)),
        exc |-> FALSE]

\* one iteration of "for box, track_id, cls in zip(boxes, track_ids, classes)"
ProcessDet(c, d, st, fault, ly, f, today_str) ==
  LET th1 == AppendPosition(st.th, d.track_id, <<d.x, d.y>>)
      track == th1[d.track_id]
      n == Len(track)
      crossing == n > 1 /\ Crosses(track[n - 1][2], track[n][2], ly)
      monitored == d.cls \in DOMAIN CLASS_NAMES_MAP
      upd == AppUpdateDailyStats(st.coll, c, today_str, d.cls,
                                 SpeedKmh(track[n - 1], track[n], f), fault # "store")
      counted == [st.crossed EXCEPT ![<<c, CounterField(CLASS_NAMES_MAP[d.cls])>>] = @ + 1]
  IN IF fault = "annotate"
       THEN \* cv2.rectangle / cv2.putText raises
            [st EXCEPT !.th = th1, !.exc = TRUE]
     ELSE IF ~crossing
       THEN [st EXCEPT !.th = th1]
     ELSE IF upd.exc
       THEN \* update_daily_stats raised: the pop is not reached
            [th |-> th1, coll |-> st.coll,
             crossed |-> IF monitored /\ fault # "store" THEN counted ELSE st.crossed,
             lc |-> IF monitored /\ fault # "store" THEN st.lc \cup {d.track_id} ELSE st.lc,
             exc |-> TRUE]
     ELSE [th |-> PopTrack(th1, d.track_id), coll |-> upd.coll,
           crossed |-> IF monitored THEN counted ELSE st.crossed,
           lc |-> IF monitored THEN st.lc \cup {d.track_id} ELSE st.lc,
           exc |-> FALSE]

RECURSIVE ProcessDets(_, _, _, _, _, _, _, _)
ProcessDets(c, dets, i, st, fault, ly, f, today_str) ==
  IF i > Len(dets) \/ st.exc THEN st
  ELSE ProcessDets(c, dets, i + 1, ProcessDet(c, dets[i], st, fault, ly, f, today_str),
                   fault, ly, f, today_str)

\* what the actions of Spec leave alone
appFrame == <<aggVars, vpVars, supVars, scnVars, auxVars>>

IdleAgg ==
  /\ variant = "app"
  /\ wpc = [w \in Writers |-> "idle"]
  /\ wreq = [w \in Writers |-> NoReq]
  /\ ncalls = [w \in Writers |-> 0]
  /\ issued = [k \in AggKeys |-> 0]
  /\ raised = 0

\* the camera whose feed a generator serves (/video_feed/<camera_id>)
ViewerCamera == [v \in Viewers |-> "c1"] @@ ("v3" :> "c2")

JpegOfOtherFrame(c, n) == <<"jpg", c, 0 - n>>

\* cv2.imencode('.jpg', annotated_frame) then buffer.tobytes()
Jpeg(c, n) == <<"jpg", c, n>>

StoreFramePartial(frames, camera_id, bytes) ==
  [frames EXCEPT ![camera_id] = SubSeq(bytes, 1, 2)]

\* output_frames[camera_id] = buffer.tobytes()
StoreFrame(frames, camera_id, bytes) == [frames EXCEPT ![camera_id] = bytes]

SlotGetAnyCamera(frames, camera_id) == frames["c1"]

\* frame = output_frames.get(camera_id)
SlotGet(frames, camera_id) == frames[camera_id]

Init ==
  /\ InitStore
  /\ collection_bool = "truthy"
  /\ IdleAgg
  /\ IdleVP
  /\ IdleSup
  /\ IdleScn
  /\ pc = [c \in AppCameras |-> "connect"]
  /\ cap = [c \in AppCameras |-> "unset"]
  /\ line_y = [c \in AppCameras |-> 0]
  /\ fps = [c \in AppCameras |-> 0]
  /\ track_history = [c \in AppCameras |-> EmptyFcn]
  /\ frameNo = [c \in AppCameras |-> 0]
  /\ cur = [c \in AppCameras |-> 0]
  /\ lastExit = [c \in AppCameras |-> "none"]
  /\ backedOff = [c \in AppCameras |-> FALSE]
  /\ openFails = [c \in AppCameras |-> 0]
  /\ crossed = [k \in AppCameras \X CounterFields |-> 0]
  /\ lastCrossed = [c \in AppCameras |-> {}]
  /\ output_frames = [c \in AppCameras |-> NoFrame]
  /\ frame_locks = [c \in AppCameras |-> None]
  /\ lastPublished = [c \in AppCameras |-> NoFrame]
  /\ vpc = [v \in Viewers |-> "sleep"]
  /\ vframe = [v \in Viewers |-> NoFrame]
  /\ emits = [v \in Viewers |-> <<>>]

\* cap = cv2.VideoCapture(rtsp_url) opened: width, height, line_y and fps are
\* read and the inner loop is entered
OpenOk(c) ==
  /\ pc[c] = "connect"
  /\ \E h \in Heights, r \in SourceFps :
       /\ line_y' = [line_y EXCEPT ![c] = LineY(h)]
       /\ fps' = [fps EXCEPT ![c] = ConnectFps(r)]
  /\ cap' = [cap EXCEPT ![c] = "opened"]
  /\ pc' = [pc EXCEPT ![c] = AfterOpen(TRUE)]
  /\ openFails' = [openFails EXCEPT ![c] = 0]
  /\ UNCHANGED <<track_history, frameNo, cur, lastExit, backedOff, crossed, lastCrossed>>
  /\ UNCHANGED <<storeVars, frameVars, viewerVars, appFrame>>

\* if not cap.isOpened(): time.sleep(10); continue
OpenFail(c) ==
  /\ pc[c] = "connect"
  /\ openFails[c] < MaxOpenFails
  /\ cap' = [cap EXCEPT ![c] = "failed"]
  /\ pc' = [pc EXCEPT ![c] = AfterOpen(FALSE)]
  /\ openFails' = [openFails EXCEPT ![c] = @ + 1]
  /\ lastExit' = [lastExit EXCEPT ![c] = "open_failed"]
  /\ backedOff' = [backedOff EXCEPT ![c] = FALSE]
  /\ UNCHANGED <<line_y, fps, track_history, frameNo, cur, crossed, lastCrossed>>
  /\ UNCHANGED <<storeVars, frameVars, viewerVars, appFrame>>

\* time.sleep(10) or time.sleep(5) returns; the finally clause is next
Sleep(c) ==
  /\ pc[c] \in {"backoff10", "backoff5"}
  /\ pc' = [pc EXCEPT ![c] = "finally"]
  /\ backedOff' = [backedOff EXCEPT ![c] = TRUE]
  /\ UNCHANGED <<cap, line_y, fps, track_history, frameNo, cur, lastExit, openFails, crossed, lastCrossed>>
  /\ UNCHANGED <<storeVars, frameVars, viewerVars, appFrame>>

\* finally: if 'cap' in locals() and cap.isOpened(): cap.release(); then the
\* next iteration of while True
Finally(c) ==
  /\ pc[c] = "finally"
  /\ cap' = [cap EXCEPT ![c] = IF @ = "opened" THEN "released" ELSE @]
  /\ pc' = [pc EXCEPT ![c] = "connect"]
  /\ UNCHANGED <<line_y, fps, track_history, frameNo, cur, lastExit, backedOff, openFails, crossed, lastCrossed>>
  /\ UNCHANGED <<storeVars, frameVars, viewerVars, appFrame>>

\* ret, frame = cap.read(); if not ret: break
ReadFail(c) ==
  /\ pc[c] = "read"
  /\ pc' = [pc EXCEPT ![c] = "finally"]
  /\ lastExit' = [lastExit EXCEPT ![c] = "read_failed"]
  /\ backedOff' = [backedOff EXCEPT ![c] = FALSE]
  /\ UNCHANGED <<cap, line_y, fps, track_history, frameNo, cur, openFails, crossed, lastCrossed>>
  /\ UNCHANGED <<storeVars, frameVars, viewerVars, appFrame>>

ProcessFramePublishing(c) ==
  /\ pc[c] = "read"
  /\ frameNo[c] < MaxFrames
  /\ frameNo' = [frameNo EXCEPT ![c] = @ + 1]
  /\ cur' = [cur EXCEPT ![c] = frameNo[c] + 1]
  /\ output_frames' = StoreFrame(output_frames, c, Jpeg(c, frameNo[c] + 1))
  /\ lastPublished' = [lastPublished EXCEPT ![c] = Jpeg(c, frameNo[c] + 1)]
  /\ \E dets \in DetInputs, fault \in Faults :
       LET st0 == [th |-> track_history[c], coll |-> stats_collection,
                   crossed |-> crossed, lc |-> {},
                   exc |-> (fault = "detector" \/ (fault = "annotate" /\ dets = <<>>))]
           st == ProcessDets(c, dets, 1, st0, fault, line_y[c], fps[c], today)
       IN /\ track_history' = [track_history EXCEPT ![c] = st.th]
          /\ stats_collection' = st.coll
          /\ crossed' = st.crossed
          /\ lastCrossed' = [lastCrossed EXCEPT ![c] = st.lc]
          /\ IF st.exc
               THEN /\ pc' = [pc EXCEPT ![c] = ExceptPc]
                    /\ lastExit' = [lastExit EXCEPT ![c] = "exception"]
                    /\ backedOff' = [backedOff EXCEPT ![c] = FALSE]
               ELSE /\ pc' = [pc EXCEPT ![c] = "publish"]
                    /\ UNCHANGED <<lastExit, backedOff>>
  /\ UNCHANGED <<cap, line_y, fps, openFails, frame_locks>>
  /\ UNCHANGED <<collection_bool, today, viewerVars, appFrame>>

\* a frame is read and processed up to the "with frame_locks[camera_id]"
ProcessFrame(c) ==
  /\ pc[c] = "read"
  /\ frameNo[c] < MaxFrames
  /\ frameNo' = [frameNo EXCEPT ![c] = @ + 1]
  /\ cur' = [cur EXCEPT ![c] = frameNo[c] + 1]
  /\ \E dets \in DetInputs, fault \in Faults :
       LET st0 == [th |-> track_history[c], coll |-> stats_collection,
                   crossed |-> crossed, lc |-> {},
                   exc |-> (fault = "detector" \/ (fault = "annotate" /\ dets = <<>>))]
           st == ProcessDets(c, dets, 1, st0, fault, line_y[c], fps[c], today)
       IN /\ track_history' = [track_history EXCEPT ![c] = st.th]
          /\ stats_collection' = st.coll
          /\ crossed' = st.crossed
          /\ lastCrossed' = [lastCrossed EXCEPT ![c] = st.lc]
          /\ IF st.exc
               THEN /\ pc' = [pc EXCEPT ![c] = ExceptPc]
                    /\ lastExit' = [lastExit EXCEPT ![c] = "exception"]
                    /\ backedOff' = [backedOff EXCEPT ![c] = FALSE]
               ELSE /\ pc' = [pc EXCEPT ![c] = "publish"]
                    /\ UNCHANGED <<lastExit, backedOff>>
  /\ UNCHANGED <<cap, line_y, fps, openFails>>
  /\ UNCHANGED <<collection_bool, today, frameVars, viewerVars, appFrame>>

\* with frame_locks[camera_id]: the lock is taken
PublishAcquire(c) ==
  /\ pc[c] = "publish"
  /\ frame_locks[c] = None
  /\ frame_locks' = [frame_locks EXCEPT ![c] = "worker"]
  /\ pc' = [pc EXCEPT ![c] = "locked"]
  /\ UNCHANGED <<cap, line_y, fps, track_history, frameNo, cur, lastExit, backedOff, openFails, crossed, lastCrossed>>
  /\ UNCHANGED <<output_frames, lastPublished>>
  /\ UNCHANGED <<storeVars, viewerVars, appFrame>>

PublishStoreLeak(c) ==
  /\ pc[c] = "locked"
  /\ \/ /\ output_frames' = StoreFrame(output_frames, c, Jpeg(c, cur[c]))
        /\ lastPublished' = [lastPublished EXCEPT ![c] = Jpeg(c, cur[c])]
        /\ frame_locks' = [frame_locks EXCEPT ![c] = None]
        /\ pc' = [pc EXCEPT ![c] = "read"]
        /\ UNCHANGED <<lastExit, backedOff>>
     \/ /\ UNCHANGED <<output_frames, lastPublished, frame_locks>>
        /\ pc' = [pc EXCEPT ![c] = ExceptPc]
        /\ lastExit' = [lastExit EXCEPT ![c] = "exception"]
        /\ backedOff' = [backedOff EXCEPT ![c] = FALSE]
  /\ UNCHANGED <<cap, line_y, fps, track_history, frameNo, cur, openFails, crossed, lastCrossed>>
  /\ UNCHANGED <<storeVars, viewerVars, appFrame>>

\* ret, buffer = cv2.imencode(...); output_frames[camera_id] = buffer.tobytes();
\* the with statement releases the lock, also when imencode raises
PublishStore(c) ==
  /\ pc[c] = "locked"
  /\ frame_locks' = [frame_locks EXCEPT ![c] = None]
  /\ \/ /\ output_frames' = StoreFrame(output_frames, c, Jpeg(c, cur[c]))
        /\ lastPublished' = [lastPublished EXCEPT ![c] = Jpeg(c, cur[c])]
        /\ pc' = [pc EXCEPT ![c] = "read"]
        /\ UNCHANGED <<lastExit, backedOff>>
     \/ /\ UNCHANGED <<output_frames, lastPublished>>
        /\ pc' = [pc EXCEPT ![c] = ExceptPc]
        /\ lastExit' = [lastExit EXCEPT ![c] = "exception"]
        /\ backedOff' = [backedOff EXCEPT ![c] = FALSE]
  /\ UNCHANGED <<cap, line_y, fps, track_history, frameNo, cur, openFails, crossed, lastCrossed>>
  /\ UNCHANGED <<storeVars, viewerVars, appFrame>>

(***************************************************************************)
(* app.py: generate_frames.                                                *)
(***************************************************************************)
\* time.sleep(0.04) returns and "with frame_locks[camera_id]" takes the lock
ViewerAcquire(v) ==
  /\ vpc[v] = "sleep"
  /\ Len(emits[v]) < MaxEmits
  /\ frame_locks[ViewerCamera[v]] = None
  /\ frame_locks' = [frame_locks EXCEPT ![ViewerCamera[v]] = v]
  /\ vpc' = [vpc EXCEPT ![v] = "locked"]
  /\ UNCHANGED <<output_frames, lastPublished, vframe, emits>>
  /\ UNCHANGED <<storeVars, workerVars, appFrame>>

\* frame = output_frames.get(camera_id), and the lock is released
ViewerRead(v) ==
  /\ vpc[v] = "locked"
  /\ vframe' = [vframe EXCEPT ![v] = SlotGet(output_frames, ViewerCamera[v])]
  /\ frame_locks' = [frame_locks EXCEPT ![ViewerCamera[v]] = None]
  /\ vpc' = [vpc EXCEPT ![v] = "got"]
  /\ UNCHANGED <<output_frames, lastPublished, emits>>
  /\ UNCHANGED <<storeVars, workerVars, appFrame>>

\* if frame: yield the multipart part
ViewerEmit(v) ==
  /\ vpc[v] = "got"
  /\ emits' = [emits EXCEPT ![v] = IF vframe[v] # NoFrame THEN Append(@, vframe[v]) ELSE @]
  /\ vpc' = [vpc EXCEPT ![v] = "sleep"]
  /\ UNCHANGED <<vframe, frameVars>>
  /\ UNCHANGED <<storeVars, workerVars, appFrame>>

Next ==
  \/ \E c \in AppCameras : OpenOk(c)
  \/ \E c \in AppCameras : OpenFail(c)
  \/ \E c \in AppCameras : Sleep(c)
  \/ \E c \in AppCameras : Finally(c)
  \/ \E c \in AppCameras : ReadFail(c)
  \/ \E c \in AppCameras : ProcessFrame(c)
  \/ \E c \in AppCameras : PublishAcquire(c)
  \/ \E c \in AppCameras : PublishStore(c)
  \/ \E v \in Viewers : ViewerAcquire(v)
  \/ \E v \in Viewers : ViewerRead(v)
  \/ \E v \in Viewers : ViewerEmit(v)

Spec == Init /\ [][Next]_vars

AppCounter(c, f) == CounterOf(stats_collection, "app", c, today, f)

\* C1: every crossing of a monitored class that a frame detects while the
\* store is reachable adds exactly 1 to total_<class> of (camera_id, today),
\* and the crossing frame removes the track's entry from track_history
C1_CrossingCounted ==
  \A c \in AppCameras :
     /\ \A f \in CounterFields : AppCounter(c, f) = crossed[<<c, f>>]
     /\ \A t \in lastCrossed[c] : t \notin DOMAIN track_history[c]

\* C5: a read of the frame slot returns the frame of the most recently
\* completed publish for the camera, absent before the first one, and a
\* generator yields a part only for a frame it has read
C5_ReadsLatestPublish ==
  [][\A v \in Viewers :
       /\ (vpc[v] = "locked" /\ vpc'[v] = "got") =>
             vframe'[v] = lastPublished[ViewerCamera[v]]
       /\ emits'[v] # emits[v] =>
             (vframe[v] # NoFrame /\ emits'[v] = Append(emits[v], vframe[v]))]_vars

\* a second publish has completed and a generator has read it while another
\* generator holds the lock
C5_Witness ==
  \E v, w \in Viewers :
     /\ v # w
     /\ vpc[v] = "got"
     /\ vframe[v] = lastPublished[ViewerCamera[v]]
     /\ vframe[v] \notin {NoFrame, Jpeg(ViewerCamera[v], 1)}
     /\ vpc[w] = "locked"

\* the thread is trying to open the source or waiting to try again
InOpenCycle(c) ==
  \/ pc[c] \in {"connect", "backoff10"}
  \/ pc[c] = "finally" /\ lastExit[c] = "open_failed"

\* C6: while opens fail the thread stays in the connect/backoff cycle, its
\* steps record no statistics and publish no frame, it does not terminate,
\* and the step in which the open succeeds enters the read loop
C6_OpenFailureCycle ==
  [][\A c \in AppCameras :
       /\ (InOpenCycle(c) /\ pc'[c] # pc[c]) =>
            /\ stats_collection' = stats_collection
            /\ output_frames'[c] = output_frames[c]
            /\ pc'[c] # "terminated"
            /\ IF cap'[c] = "opened" THEN pc'[c] = "read" ELSE InOpenCycle(c)'
       /\ openFails'[c] > 0 => InOpenCycle(c)']_vars

C6_Witness ==
  \E c \in AppCameras :
     /\ openFails[c] >= 3
     /\ pc[c] = "connect"
     /\ stats_collection = <<>>
     /\ output_frames[c] = NoFrame

\* C7: a failure while a frame is processed sends the thread to the backoff
\* sleep; it is back at connecting only after the sleep and with the source
\* released, the failing frame is not in the frame slot, and the thread never
\* terminates
C7_FailureReconnects ==
  [][\A c \in AppCameras :
       /\ (lastExit'[c] = "exception" /\ pc[c] \in {"read", "locked"} /\ pc'[c] # pc[c]
             /\ pc'[c] \notin {"publish", "read"}) =>
            /\ pc'[c] = "backoff5"
            /\ output_frames'[c] = output_frames[c]
       /\ (lastExit'[c] = "exception" /\ pc'[c] \in {"backoff5", "finally", "connect"}) =>
            output_frames'[c] # Jpeg(c, cur'[c])
       /\ (lastExit'[c] = "exception" /\ pc'[c] = "connect") =>
            (backedOff'[c] /\ cap'[c] = "released")
       /\ pc'[c] # "terminated"]_vars

C7_Witness ==
  \E c \in AppCameras :
     /\ lastExit[c] = "exception"
     /\ pc[c] = "connect"
     /\ cap[c] = "released"
     /\ cur[c] > 1
     /\ output_frames[c] = Jpeg(c, cur[c] - 1)

\* C9: after a read failure the thread is back at connecting only with the
\* source released and after a backoff sleep
C9_BackoffAfterReadFailure ==
  \A c \in AppCameras :
     (pc[c] = "connect" /\ lastExit[c] = "read_failed") =>
        (cap[c] = "released" /\ backedOff[c])

(***************************************************************************)
(* video_processor.py: VideoProcessor.                                     *)
(***************************************************************************)
VPCamera == "c1"

MaxOps == 3

\* what the actions of SpecVP leave alone
vpFrame == <<aggVars, appVars, supVars, scnVars, auxVars>>

\* fps = cap.get(cv2.CAP_PROP_FPS) or 30
ConnectFpsVP(reported) == IF reported = 0 THEN 30 ELSE reported

ResetTrackKeepLast(th, track_id) ==
  [th EXCEPT ![track_id] = <<@[Len(@)]>>]

\* self.track_history[track_id] = []
ResetTrack(th, track_id) == [th EXCEPT ![track_id] = <<>>]

VPFaults == {"none", "detector", "annotate", "store", "store2"}

\* _update_daily_stats(vehicle_class, speed); exc tells that it raised
VPUpdateDailyStats(coll, daily, ref, cbool, today_str, vehicle_class, fault) ==
  LET query == FieldsQuery(VPCamera, today_str)
      coll1 == UpdateOne(coll, query, VPInitUpdate(VPCamera, today_str), Oid(coll))
      field == CounterField(CLASS_NAMES_MAP[vehicle_class])
  IN IF ref = None
       THEN \* "not None" is True: return
            [coll |-> coll, daily |-> daily, exc |-> FALSE]
     ELSE IF cbool = "raises"
       THEN [coll |-> coll, daily |-> daily, exc |-> TRUE]
     ELSE IF vehicle_class \notin DOMAIN CLASS_NAMES_MAP
       THEN [coll |-> coll, daily |-> daily, exc |-> FALSE]
     ELSE IF fault = "store" \/ Conflict(VPInitUpdate(VPCamera, today_str))
       THEN [coll |-> coll, daily |-> daily, exc |-> TRUE]
     ELSE IF fault = "store2" \/ Conflict(VPIncUpdate(CLASS_NAMES_MAP[vehicle_class]))
       THEN [coll |-> coll1, daily |-> daily, exc |-> TRUE]
     ELSE [coll |-> UpdateOne(coll1, query, VPIncUpdate(CLASS_NAMES_MAP[vehicle_class]),
                              Oid(coll1)),
           daily |-> [daily EXCEPT ![field] = @ + 1],
           exc |-> FALSE]

\* one iteration of the for loop of _process_stream
VPProcessDet(d, st, fault, ref, cbool, ly, f, today_str) ==
  LET th1 == AppendPosition(st.th, d.track_id, <<d.x, d.y>>)
      track == th1[d.track_id]
      n == Len(track)
      crossing == n > 1 /\ Crosses(track[n - 1][2], track[n][2], ly)
      upd == VPUpdateDailyStats(st.coll, st.daily, ref, cbool, today_str, d.cls, fault)
      after == IF ~crossing THEN [st EXCEPT !.th = th1]
               ELSE IF upd.exc
                 THEN [th |-> th1, coll |-> upd.coll, daily |-> upd.daily, exc |-> TRUE]
               ELSE [th |-> ResetTrack(th1, d.track_id), coll |-> upd.coll,
                     daily |-> upd.daily, exc |-> FALSE]
  IN IF ~after.exc /\ fault = "annotate"
       THEN \* cv2.rectangle / cv2.putText raises
            [after EXCEPT !.exc = TRUE]
       ELSE after

RECURSIVE VPProcessDets(_, _, _, _, _, _, _, _, _)
VPProcessDets(dets, i, st, fault, ref, cbool, ly, f, today_str) ==
  IF i > Len(dets) \/ st.exc THEN st
  ELSE VPProcessDets(dets, i + 1,
                     VPProcessDet(dets[i], st, fault, ref, cbool, ly, f, today_str),
                     fault, ref, cbool, ly, f, today_str)

InitVP ==
  /\ InitStore
  /\ collection_bool \in {"truthy", "raises"}
  /\ IdleAgg
  /\ IdleApp
  /\ IdleVP
  /\ IdleSup
  /\ IdleScn

\* start(): if self.is_running: return
StartCheck(k) ==
  /\ kpc[k] = "idle"
  /\ nops < MaxOps
  /\ nops' = nops + 1
  /\ kpc' = [kpc EXCEPT ![k] = IF is_running THEN "idle" ELSE "start"]
  /\ UNCHANGED <<is_running, thread, vp_collection, daily_stats, latest_frame, vp_history,
                 vp_frameNo, tpc, tcap, tline_y, tfps, kjoin>>
  /\ UNCHANGED <<storeVars, vpFrame>>

\* start(): self.is_running = True; self.thread = Thread(...); self.thread.start()
StartThread(k) ==
  /\ kpc[k] = "start"
  /\ \E i \in DOMAIN ThreadSeq :
       /\ tpc[ThreadSeq[i]] = "unborn"
       /\ \A j \in 1..(i - 1) : tpc[ThreadSeq[j]] # "unborn"
       /\ thread' = ThreadSeq[i]
       /\ tpc' = [tpc EXCEPT ![ThreadSeq[i]] = "connect_db"]
  /\ is_running' = TRUE
  /\ kpc' = [kpc EXCEPT ![k] = "idle"]
  /\ UNCHANGED <<vp_collection, daily_stats, latest_frame, vp_history, vp_frameNo,
                 tcap, tline_y, tfps, kjoin, nops>>
  /\ UNCHANGED <<storeVars, vpFrame>>

\* stop(): self.is_running = False; if self.thread: self.thread.join() begins
StopSet(k) ==
  /\ kpc[k] = "idle"
  /\ nops < MaxOps
  /\ nops' = nops + 1
  /\ is_running' = FALSE
  /\ IF thread # None
       THEN /\ kpc' = [kpc EXCEPT ![k] = "join"]
            /\ kjoin' = [kjoin EXCEPT ![k] = thread]
       ELSE UNCHANGED <<kpc, kjoin>>
  /\ UNCHANGED <<thread, vp_collection, daily_stats, latest_frame, vp_history, vp_frameNo,
                 tpc, tcap, tline_y, tfps>>
  /\ UNCHANGED <<storeVars, vpFrame>>

\* stop(): self.thread.join() returns once the thread has ended
StopJoin(k) ==
  /\ kpc[k] = "join"
  /\ tpc[kjoin[k]] = "ended"
  /\ kpc' = [kpc EXCEPT ![k] = "idle"]
  /\ kjoin' = [kjoin EXCEPT ![k] = None]
  /\ UNCHANGED <<is_running, thread, vp_collection, daily_stats, latest_frame, vp_history,
                 vp_frameNo, tpc, tcap, tline_y, tfps, nops>>
  /\ UNCHANGED <<storeVars, vpFrame>>

\* _connect_db(): the collection handle is set, or the exception is printed
ConnectDb(t) ==
  /\ tpc[t] = "connect_db"
  /\ \E ok \in BOOLEAN : vp_collection' = IF ok THEN "collection" ELSE vp_collection
  /\ tpc' = [tpc EXCEPT ![t] = "outer"]
  /\ UNCHANGED <<is_running, thread, daily_stats, latest_frame, vp_history, vp_frameNo,
                 tcap, tline_y, tfps, kpc, kjoin, nops>>
  /\ UNCHANGED <<storeVars, vpFrame>>

OuterCheckIgnoringFlag(t) ==
  /\ tpc[t] = "outer"
  /\ tpc' = [tpc EXCEPT ![t] = "connect"]
  /\ UNCHANGED <<is_running, thread, vp_collection, daily_stats, latest_frame, vp_history,
                 vp_frameNo, tcap, tline_y, tfps, kpc, kjoin, nops>>
  /\ UNCHANGED <<storeVars, vpFrame>>

\* while self.is_running: (outer loop); the function returns when it is False
OuterCheck(t) ==
  /\ tpc[t] = "outer"
  /\ tpc' = [tpc EXCEPT ![t] = IF is_running THEN "connect" ELSE "ended"]
  /\ UNCHANGED <<is_running, thread, vp_collection, daily_stats, latest_frame, vp_history,
                 vp_frameNo, tcap, tline_y, tfps, kpc, kjoin, nops>>
  /\ UNCHANGED <<storeVars, vpFrame>>

\* cap = cv2.VideoCapture(self.rtsp_url), opened or not
VPOpen(t) ==
  /\ tpc[t] = "connect"
  /\ \/ /\ tcap' = [tcap EXCEPT ![t] = "opened"]
        /\ \E h \in Heights, r \in SourceFps :
             /\ tline_y' = [tline_y EXCEPT ![t] = LineY(h)]
             /\ tfps' = [tfps EXCEPT ![t] = ConnectFpsVP(r)]
        /\ tpc' = [tpc EXCEPT ![t] = "inner"]
     \/ /\ tcap' = [tcap EXCEPT ![t] = "failed"]
        /\ tpc' = [tpc EXCEPT ![t] = "backoff10"]
        /\ UNCHANGED <<tline_y, tfps>>
  /\ UNCHANGED <<is_running, thread, vp_collection, daily_stats, latest_frame, vp_history,
                 vp_frameNo, kpc, kjoin, nops>>
  /\ UNCHANGED <<storeVars, vpFrame>>

\* time.sleep(10); continue   and   time.sleep(2) at the end of the outer loop
VPSleep(t) ==
  /\ tpc[t] \in {"backoff10", "backoff2"}
  /\ tpc' = [tpc EXCEPT ![t] = "outer"]
  /\ UNCHANGED <<is_running, thread, vp_collection, daily_stats, latest_frame, vp_history,
                 vp_frameNo, tcap, tline_y, tfps, kpc, kjoin, nops>>
  /\ UNCHANGED <<storeVars, vpFrame>>

\* while self.is_running: (inner loop)
InnerCheck(t) ==
  /\ tpc[t] = "inner"
  /\ tpc' = [tpc EXCEPT ![t] = IF is_running THEN "read" ELSE "release"]
  /\ UNCHANGED <<is_running, thread, vp_collection, daily_stats, latest_frame, vp_history,
                 vp_frameNo, tcap, tline_y, tfps, kpc, kjoin, nops>>
  /\ UNCHANGED <<storeVars, vpFrame>>

\* ret, frame = cap.read(); if not ret: break
VPReadFail(t) ==
  /\ tpc[t] = "read"
  /\ tpc' = [tpc EXCEPT ![t] = "release"]
  /\ UNCHANGED <<is_running, thread, vp_collection, daily_stats, latest_frame, vp_history,
                 vp_frameNo, tcap, tline_y, tfps, kpc, kjoin, nops>>
  /\ UNCHANGED <<storeVars, vpFrame>>

\* a frame is read and processed up to "with self.frame_lock"; nothing in
\* _process_stream catches an exception, so one ends the thread
VPProcessFrame(t) ==
  /\ tpc[t] = "read"
  /\ vp_frameNo < MaxFrames
  /\ vp_frameNo' = vp_frameNo + 1
  /\ \E dets \in DetInputs, fault \in VPFaults :
       LET st0 == [th |-> vp_history, coll |-> stats_collection, daily |-> daily_stats,
                   exc |-> (fault = "detector")]
           st == VPProcessDets(dets, 1, st0, fault, vp_collection, collection_bool,
                               tline_y[t], tfps[t], today)
       IN /\ vp_history' = st.th
          /\ stats_collection' = st.coll
          /\ daily_stats' = st.daily
          /\ tpc' = [tpc EXCEPT ![t] = IF st.exc THEN "ended" ELSE "publish"]
  /\ UNCHANGED <<is_running, thread, vp_collection, latest_frame, tcap, tline_y, tfps,
                 kpc, kjoin, nops>>
  /\ UNCHANGED <<collection_bool, today, vpFrame>>

\* with self.frame_lock: self.latest_frame = frame.copy()
VPPublish(t) ==
  /\ tpc[t] = "publish"
  /\ latest_frame' = <<"raw", vp_frameNo>>
  /\ tpc' = [tpc EXCEPT ![t] = "inner"]
  /\ UNCHANGED <<is_running, thread, vp_collection, daily_stats, vp_history, vp_frameNo,
                 tcap, tline_y, tfps, kpc, kjoin, nops>>
  /\ UNCHANGED <<storeVars, vpFrame>>

\* cap.release(), then time.sleep(2)
VPRelease(t) ==
  /\ tpc[t] = "release"
  /\ tcap' = [tcap EXCEPT ![t] = "released"]
  /\ tpc' = [tpc EXCEPT ![t] = "backoff2"]
  /\ UNCHANGED <<is_running, thread, vp_collection, daily_stats, latest_frame, vp_history,
                 vp_frameNo, tline_y, tfps, kpc, kjoin, nops>>
  /\ UNCHANGED <<storeVars, vpFrame>>

NextVP ==
  \/ \E k \in Callers : StartCheck(k)
  \/ \E k \in Callers : StartThread(k)
  \/ \E k \in Callers : StopSet(k)
  \/ \E k \in Callers : StopJoin(k)
  \/ \E t \in Threads : ConnectDb(t)
  \/ \E t \in Threads : OuterCheck(t)
  \/ \E t \in Threads : VPOpen(t)
  \/ \E t \in Threads : VPSleep(t)
  \/ \E t \in Threads : InnerCheck(t)
  \/ \E t \in Threads : VPReadFail(t)
  \/ \E t \in Threads : VPProcessFrame(t)
  \/ \E t \in Threads : VPPublish(t)
  \/ \E t \in Threads : VPRelease(t)

SpecVP == InitVP /\ [][NextVP]_vars

\* C8: a _process_stream thread ends only in a step that finds is_running
\* False
C8_EndsOnlyWhenStopped ==
  [][\A t \in Threads :
       (tpc[t] # "ended" /\ tpc'[t] = "ended") => ~is_running]_vars

(***************************************************************************)
(* start_all_camera_processing (app.py, main.py, ai_processor.py).         *)
(***************************************************************************)
\* what the actions of SpecSup leave alone
supFrame == <<storeVars, aggVars, appVars, vpVars, scnVars, auxVars>>

RECURSIVE ConfigLists(_)
ConfigLists(n) ==
  IF n = 0 THEN {<<>>}
  ELSE ConfigLists(n - 1) \cup
       {Append(l, [camera_id |-> id]) :
          l \in {m \in ConfigLists(n - 1) : Len(m) = n - 1}, id \in ConfigIds}

\* truth value of camera_id in "if camera_id and ..."
Truthy(camera_id) == camera_id \notin {None, ""}

ShouldStartUnchecked(camera_id, threads) == Truthy(camera_id)

\* if camera_id and camera_id not in processing_threads:
ShouldStart(camera_id, threads) == Truthy(camera_id) /\ camera_id \notin threads

\* the for loop over all_cameras: register the thread, then start it
RECURSIVE StartLoop(_, _, _)
StartLoop(all_cameras, i, st) ==
  IF i > Len(all_cameras) THEN st
  ELSE LET camera_id == all_cameras[i].camera_id
       IN StartLoop(all_cameras, i + 1,
                    IF ShouldStart(camera_id, st.threads)
                      THEN [threads |-> st.threads \cup {camera_id},
                            started |-> [st.started EXCEPT ![camera_id] = @ + 1]]
                      ELSE st)

InitSup ==
  /\ InitStore
  /\ collection_bool = "truthy"
  /\ IdleAgg
  /\ IdleApp
  /\ IdleVP
  /\ IdleSup
  /\ IdleScn

\* start_all_camera_processing(): cameras_collection.find({}) returns
\* all_cameras and the loop runs, or find raises and the except clause prints
StartAll(all_cameras) ==
  /\ invocations < MaxInvocations
  /\ invocations' = invocations + 1
  /\ \/ /\ lastConfigs' = all_cameras
        /\ seen' = seen \cup {all_cameras[i].camera_id : i \in 1..Len(all_cameras)}
        /\ LET st == StartLoop(all_cameras, 1,
                               [threads |-> processing_threads, started |-> started])
           IN /\ processing_threads' = st.threads
              /\ started' = st.started
     \/ /\ lastConfigs' = <<>>
        /\ UNCHANGED <<processing_threads, started, seen>>
  /\ UNCHANGED supFrame

NextSup == \E all_cameras \in ConfigLists(MaxConfigLen) : StartAll(all_cameras)

SpecSup == InitSup /\ [][NextSup]_vars

ConfigIdsOf(l) == {l[i].camera_id : i \in 1..Len(l)}

\* C10: after any sequence of invocations exactly one thread has been started
\* for each distinct non-empty camera id seen and none for any other id, and
\* an invocation whose ids all have a thread starts none and leaves
\* processing_threads unchanged
C10_StartAllIdempotent ==
  [][/\ \A id \in ConfigIds :
          started'[id] = IF id \in seen' /\ Truthy(id) THEN 1 ELSE 0
     /\ processing_threads' = {id \in seen' : Truthy(id)}
     /\ (\A id \in ConfigIdsOf(lastConfigs') : Truthy(id) => id \in processing_threads) =>
          (processing_threads' = processing_threads /\ started' = started)]_vars

\* a third invocation over a list that repeats an id already started
C10_Witness ==
  /\ invocations = 3
  /\ Len(lastConfigs) = 3
  /\ lastConfigs[1].camera_id = "c1"
  /\ lastConfigs[2].camera_id = "c1"
  /\ lastConfigs[3].camera_id = ""
  /\ processing_threads = {"c1", "c2"}
  /\ started["c1"] = 1
  /\ started["c2"] = 1

(***************************************************************************)
(* SpecScn: one app.py worker fed single detections of track 1, the store  *)
(* going down and coming back, and get_stats requests.                     *)
(***************************************************************************)
MaxScnFrames == 4

ScnCamera == "c1"

ScnHeights == {480}

ScnFps == {0, 25}

ScnYs == {200, 230, 250, 260}

ScnClasses == {0, 2}

ScnDetections == [track_id : {1}, cls : ScnClasses, x : {10}, y : ScnYs]

\* sum(speeds)
RECURSIVE Sum(_)
Sum(seq) == IF seq = <<>> THEN 0 ELSE Head(seq) + Sum(Tail(seq))

\* round(sum / len, 2) on values held in hundredths
Round2(num, den) == (2 * num + den) \div (2 * den)

\* what Flask answers when the view function lets an exception out
InternalServerError ==
  [status |-> 500, body |-> ("error" :> "Internal Server Error")]

ZeroStatsError == [f \in {"error"} |-> "no data"]

\* the body both get_stats return when find_one found no document
ZeroStats == ZeroCounters @@ ("average_speed" :> 0)

\* app.py get_stats(camera_id); up tells whether find_one reaches the server
AppGetStats(coll, up, camera_id, today_str) ==
  IF ~up THEN InternalServerError
  ELSE LET stats_data == FindOne(coll, AppQuery(camera_id, today_str))
           speeds == IF "speeds" \in DOMAIN stats_data THEN stats_data["speeds"] ELSE <<>>
           avg_speed == IF speeds # <<>> THEN Round2(Sum(speeds), Len(speeds)) ELSE 0
       IN IF stats_data # NoDoc
            THEN [status |-> 200,
                  body |-> [f \in CounterFields |-> FieldOr0(stats_data, f)]
                             @@ ("average_speed" :> avg_speed)]
            ELSE [status |-> 200, body |-> ZeroStats]

\* index.py get_db(): None when MongoClient / server_info() raise
\* ConnectionFailure
GetDb(up) == IF up THEN "db" ELSE None

IndexGetStatsFabricated(coll, up, upFind, camera_id, today_str) ==
  IF GetDb(up) = None \/ ~upFind
    THEN [status |-> 200, body |-> ZeroStats]
  ELSE LET stats_data == FindOne(coll, FieldsQuery(camera_id, today_str))
       IN IF stats_data # NoDoc
            THEN [status |-> 200, body |-> [stats_data EXCEPT !["_id"] = <<"str", @>>]]
            ELSE [status |-> 200, body |-> ZeroStats]

\* index.py get_stats(camera_id); up tells whether get_db reaches the server,
\* upFind whether find_one still does
IndexGetStats(coll, up, upFind, camera_id, today_str) ==
  IF GetDb(up) = None
    THEN [status |-> 500, body |-> ("error" :> "Database connection failed")]
  ELSE IF ~upFind THEN InternalServerError
  ELSE LET stats_data == FindOne(coll, FieldsQuery(camera_id, today_str))
       IN IF stats_data # NoDoc
            THEN [status |-> 200, body |-> [stats_data EXCEPT !["_id"] = <<"str", @>>]]
            ELSE [status |-> 200, body |-> ZeroStats]

\* the positions appended for track_id since its entry was created, after
\* the loop body left history th
AppendedAfter(app, th, track_id, center) ==
  IF track_id \notin DOMAIN th
    THEN [t \in (DOMAIN app) \ {track_id} |-> app[t]]
    ELSE [t \in (DOMAIN app) \cup {track_id} |->
            IF t # track_id THEN app[t]
            ELSE IF th[track_id] = <<>> THEN <<>>
            ELSE Append(IF track_id \in DOMAIN app THEN app[track_id] ELSE <<>>, center)]

\* what the actions of SpecScn leave alone
scnFrame == <<aggVars, vpVars, supVars, auxVars>>

InitScn ==
  /\ InitStore
  /\ collection_bool = "truthy"
  /\ IdleAgg
  /\ IdleVP
  /\ IdleSup
  /\ IdleScn
  /\ pc = [c \in AppCameras |-> "connect"]
  /\ cap = [c \in AppCameras |-> "unset"]
  /\ line_y = [c \in AppCameras |-> 0]
  /\ fps = [c \in AppCameras |-> 0]
  /\ track_history = [c \in AppCameras |-> EmptyFcn]
  /\ frameNo = [c \in AppCameras |-> 0]
  /\ cur = [c \in AppCameras |-> 0]
  /\ lastExit = [c \in AppCameras |-> "none"]
  /\ backedOff = [c \in AppCameras |-> FALSE]
  /\ openFails = [c \in AppCameras |-> 0]
  /\ crossed = [k \in AppCameras \X CounterFields |-> 0]
  /\ lastCrossed = [c \in AppCameras |-> {}]
  /\ output_frames = [c \in AppCameras |-> NoFrame]
  /\ frame_locks = [c \in AppCameras |-> None]
  /\ lastPublished = [c \in AppCameras |-> NoFrame]
  /\ vpc = [v \in Viewers |-> "unstarted"]
  /\ vframe = [v \in Viewers |-> NoFrame]
  /\ emits = [v \in Viewers |-> <<>>]

\* cap = cv2.VideoCapture(rtsp_url) opened on the scenario's source
ScnOpenOk(c) ==
  /\ pc[c] = "connect"
  /\ \E h \in ScnHeights, r \in ScnFps :
       /\ line_y' = [line_y EXCEPT ![c] = LineY(h)]
       /\ fps' = [fps EXCEPT ![c] = ConnectFps(r)]
  /\ cap' = [cap EXCEPT ![c] = "opened"]
  /\ pc' = [pc EXCEPT ![c] = AfterOpen(TRUE)]
  /\ openFails' = [openFails EXCEPT ![c] = 0]
  /\ UNCHANGED <<track_history, frameNo, cur, lastExit, backedOff, crossed, lastCrossed>>
  /\ UNCHANGED <<storeVars, frameVars, viewerVars, scnVars, scnFrame>>

\* one iteration of the read loop on a frame on which the tracker reports
\* one detection of track 1; the store write fails when the server does not
\* answer; unless the processing raised, the frame is encoded and stored
\* under the camera's lock, which nothing else holds here
ScnFrame(c) ==
  /\ pc[c] = "read"
  /\ Len(delivered) < MaxScnFrames
  /\ frameNo' = [frameNo EXCEPT ![c] = @ + 1]
  /\ cur' = [cur EXCEPT ![c] = frameNo[c] + 1]
  /\ \E d \in ScnDetections :
       LET fault == IF store_up THEN "none" ELSE "store"
           st0 == [th |-> track_history[c], coll |-> stats_collection,
                   crossed |-> crossed, lc |-> {}, exc |-> FALSE]
           st == ProcessDets(c, <<d>>, 1, st0, fault, line_y[c], fps[c], today)
       IN /\ track_history' = [track_history EXCEPT ![c] = st.th]
          /\ stats_collection' = st.coll
          /\ crossed' = st.crossed
          /\ lastCrossed' = [lastCrossed EXCEPT ![c] = st.lc]
          /\ delivered' = Append(delivered, d)
          /\ appended' = AppendedAfter(appended, st.th, d.track_id, <<d.x, d.y>>)
          /\ IF st.exc
               THEN /\ pc' = [pc EXCEPT ![c] = ExceptPc]
                    /\ lastExit' = [lastExit EXCEPT ![c] = "exception"]
                    /\ backedOff' = [backedOff EXCEPT ![c] = FALSE]
                    /\ UNCHANGED <<output_frames, lastPublished>>
               ELSE /\ frame_locks[c] = None
                    /\ output_frames' = StoreFrame(output_frames, c, Jpeg(c, frameNo[c] + 1))
                    /\ lastPublished' = [lastPublished EXCEPT ![c] = Jpeg(c, frameNo[c] + 1)]
                    /\ UNCHANGED <<pc, lastExit, backedOff>>
  /\ UNCHANGED <<cap, line_y, fps, openFails, frame_locks>>
  /\ UNCHANGED <<collection_bool, today, viewerVars, store_up, response, lost, scnFrame>>

\* GET /stats/<camera_id> served by app.py
GetStatsApp(camera_id) ==
  /\ response' = [route |-> "app", reached |-> store_up]
                   @@ AppGetStats(stats_collection, store_up, camera_id, today)
  /\ UNCHANGED <<store_up, delivered, appended, lost>>
  /\ UNCHANGED <<storeVars, appVars, scnFrame>>

\* GET /stats/<camera_id> served by index.py; the server may stop answering
\* between get_db and find_one
GetStatsIndex(camera_id) ==
  /\ \E upFind \in {store_up, FALSE} :
       response' = [route |-> "index", reached |-> upFind]
                     @@ IndexGetStats(stats_collection, store_up, upFind, camera_id, today)
  /\ UNCHANGED <<store_up, delivered, appended, lost>>
  /\ UNCHANGED <<storeVars, appVars, scnFrame>>

\* the MongoDB server stops answering, or answers again
StoreFlip ==
  /\ store_up' = ~store_up
  /\ UNCHANGED <<response, delivered, appended, lost>>
  /\ UNCHANGED <<storeVars, appVars, scnFrame>>

NextScn ==
  \/ \E c \in AppCameras : ScnOpenOk(c)
  \/ \E c \in AppCameras : ScnFrame(c)
  \/ \E c \in AppCameras : Sleep(c)
  \/ \E c \in AppCameras : Finally(c)
  \/ GetStatsApp(ScnCamera)
  \/ StoreFlip

SpecScn == InitScn /\ [][NextScn]_vars

\* the step is a get_stats request of app.py that reached the server
AppRequestStep ==
  /\ UNCHANGED <<pc, delivered, store_up, stats_collection>>
  /\ response'.route = "app"
  /\ response'.reached

ScnSample(cls, y) == [track_id |-> 1, cls |-> cls, x |-> 10, y |-> y]

\* C11: Scenario A.  Frame height 480 (line_y 240), fps 25, a car reported at
\* (10, 200) and then (10, 260) with the store reachable: a get_stats request
\* that follows returns total_car = 1 and average_speed = 540.00
C11_ScenarioA ==
  [][(/\ AppRequestStep
      /\ delivered = <<ScnSample(2, 200), ScnSample(2, 260)>>
      /\ line_y[ScnCamera] = 240 /\ fps[ScnCamera] = 25
      /\ crossed[<<ScnCamera, "total_car">>] = 1) =>
        /\ response'.status = 200
        /\ response'.body["total_car"] = 1
        /\ response'.body["average_speed"] = 54000]_vars

\* C12: Scenario C.  A car reported on four consecutive frames at y = 230,
\* 250, 230, 250 with line_y = 240 and the store reachable at the crossings
\* raises total_car by at least 2
C12_ScenarioC ==
  (/\ delivered = <<ScnSample(2, 230), ScnSample(2, 250), ScnSample(2, 230), ScnSample(2, 250)>>
   /\ line_y[ScnCamera] = 240
   /\ crossed[<<ScnCamera, "total_car">>] >= 2
   /\ pc[ScnCamera] \in {"read", "connect"}) =>
      AppCounter(ScnCamera, "total_car") >= 2

\* C13: Scenario D.  A get_stats request for a (camera_id, today) that has no
\* document answers 200 with the four counters at 0 and average_speed 0, and
\* leaves the collection as it was
C13_ScenarioD ==
  [][(/\ UNCHANGED <<pc, delivered, store_up>>
      /\ response'.route = "app"
      /\ response'.reached
      /\ FindOne(stats_collection, AppQuery(ScnCamera, today)) = NoDoc) =>
        /\ response'.status = 200
        /\ DOMAIN response'.body = CounterFields \cup {"average_speed"}
        /\ \A f \in CounterFields \cup {"average_speed"} : response'.body[f] = 0
        /\ stats_collection' = stats_collection]_vars

C13_Witness ==
  /\ response.route = "app"
  /\ response.status = 200
  /\ DOMAIN response.body = CounterFields \cup {"average_speed"}
  /\ \A f \in CounterFields \cup {"average_speed"} : response.body[f] = 0
  /\ delivered # <<>>
  /\ stats_collection = <<>>

MaxHistFrames == 33

MaxHistCrossings == 1

HistYs == {238, 242}

HistClasses == {0, 2}

\* the detection of track 1 on frame n
HistDetections(n) == [track_id : {1}, cls : HistClasses, x : {3 * n}, y : HistYs]

\* the detection makes the last two positions of its track cross the line
IsCrossing(th, d, ly) ==
  /\ d.track_id \in DOMAIN th
  /\ th[d.track_id] # <<>>
  /\ Crosses(th[d.track_id][Len(th[d.track_id])][2], d.y, ly)

\* one iteration of the read loop on a frame with one detection of track 1:
\* the detections are processed and, unless that raised, the frame is encoded
\* and stored under the camera's lock, which nothing else holds here
HistFrame(c) ==
  /\ pc[c] = "read"
  /\ frameNo[c] < MaxHistFrames
  /\ frameNo' = [frameNo EXCEPT ![c] = @ + 1]
  /\ cur' = [cur EXCEPT ![c] = frameNo[c] + 1]
  /\ \E d \in HistDetections(frameNo[c] + 1) :
       LET st0 == [th |-> track_history[c], coll |-> stats_collection,
                   crossed |-> crossed, lc |-> {}, exc |-> FALSE]
           st == ProcessDets(c, <<d>>, 1, st0, "none", line_y[c], fps[c], today)
       IN /\ (IsCrossing(track_history[c], d, line_y[c]) /\ d.cls \in DOMAIN CLASS_NAMES_MAP)
               => crossed[<<c, CounterField(CLASS_NAMES_MAP[d.cls])>>] < MaxHistCrossings
          /\ track_history' = [track_history EXCEPT ![c] = st.th]
          /\ stats_collection' = st.coll
          /\ crossed' = st.crossed
          /\ lastCrossed' = [lastCrossed EXCEPT ![c] = st.lc]
          /\ appended' = AppendedAfter(appended, st.th, d.track_id, <<d.x, d.y>>)
          /\ IF st.exc
               THEN /\ pc' = [pc EXCEPT ![c] = ExceptPc]
                    /\ lastExit' = [lastExit EXCEPT ![c] = "exception"]
                    /\ backedOff' = [backedOff EXCEPT ![c] = FALSE]
                    /\ UNCHANGED <<output_frames, lastPublished>>
               ELSE /\ frame_locks[c] = None
                    /\ output_frames' = StoreFrame(output_frames, c, Jpeg(c, frameNo[c] + 1))
                    /\ lastPublished' = [lastPublished EXCEPT ![c] = Jpeg(c, frameNo[c] + 1)]
                    /\ UNCHANGED <<pc, lastExit, backedOff>>
  /\ UNCHANGED <<cap, line_y, fps, openFails, frame_locks>>
  /\ UNCHANGED <<collection_bool, today, viewerVars, store_up, response,
                 delivered, lost, scnFrame>>

NextHist ==
  \/ \E c \in AppCameras : ScnOpenOk(c)
  \/ \E c \in AppCameras : HistFrame(c)
  \/ \E c \in AppCameras : Sleep(c)
  \/ \E c \in AppCameras : Finally(c)

SpecHist == InitScn /\ [][NextHist]_vars

\* the last n elements of seq
LastN(seq, n) == SubSeq(seq, Len(seq) - n + 1, Len(seq))

\* C16: every track's position list holds at most 30 entries and equals the
\* most recent min(n, 30) of the n positions appended since the entry was
\* created, oldest first
C16_HistoryBounded ==
  \A c \in AppCameras :
     /\ DOMAIN track_history[c] = DOMAIN appended
     /\ \A t \in DOMAIN track_history[c] :
          LET h == track_history[c][t]
              a == appended[t]
          IN /\ Len(h) <= 30
             /\ Len(h) = (IF Len(a) < 30 THEN Len(a) ELSE 30)
             /\ h = LastN(a, Len(h))

C16_Witness ==
  /\ 1 \in DOMAIN track_history[ScnCamera]
  /\ Len(track_history[ScnCamera][1]) = 30
  /\ Len(appended[1]) = 31
  /\ track_history[ScnCamera][1][1] = appended[1][2]
  /\ appended[1][1][1] > 3

(***************************************************************************)
(* SpecFeed: one app.py worker on a source whose frames show no vehicle,   *)
(* and generate_frames generators that yield several parts each.           *)
(***************************************************************************)
MaxFeedFrames == 3

MaxFeedEmits == 2

\* a frame without detections is read and processed up to the
\* "with frame_locks[camera_id]"; model.track may raise
FeedFrame(c) ==
  /\ pc[c] = "read"
  /\ frameNo[c] < MaxFeedFrames
  /\ frameNo' = [frameNo EXCEPT ![c] = @ + 1]
  /\ cur' = [cur EXCEPT ![c] = frameNo[c] + 1]
  /\ lastCrossed' = [lastCrossed EXCEPT ![c] = {}]
  /\ \E fault \in {"none", "detector"} :
       IF fault = "detector"
         THEN /\ pc' = [pc EXCEPT ![c] = ExceptPc]
              /\ lastExit' = [lastExit EXCEPT ![c] = "exception"]
              /\ backedOff' = [backedOff EXCEPT ![c] = FALSE]
         ELSE /\ pc' = [pc EXCEPT ![c] = "publish"]
              /\ UNCHANGED <<lastExit, backedOff>>
  /\ UNCHANGED <<cap, line_y, fps, openFails, track_history, crossed>>
  /\ UNCHANGED <<storeVars, frameVars, viewerVars, appFrame>>

\* time.sleep(0.04) returns and "with frame_locks[camera_id]" takes the lock
FeedViewerAcquire(v) ==
  /\ vpc[v] = "sleep"
  /\ Len(emits[v]) < MaxFeedEmits
  /\ frame_locks[ViewerCamera[v]] = None
  /\ frame_locks' = [frame_locks EXCEPT ![ViewerCamera[v]] = v]
  /\ vpc' = [vpc EXCEPT ![v] = "locked"]
  /\ UNCHANGED <<output_frames, lastPublished, vframe, emits>>
  /\ UNCHANGED <<storeVars, workerVars, appFrame>>

NextFeed ==
  \/ \E c \in AppCameras : OpenOk(c)
  \/ \E c \in AppCameras : Sleep(c)
  \/ \E c \in AppCameras : Finally(c)
  \/ \E c \in AppCameras : ReadFail(c)
  \/ \E c \in AppCameras : FeedFrame(c)
  \/ \E c \in AppCameras : PublishAcquire(c)
  \/ \E c \in AppCameras : PublishStore(c)
  \/ \E v \in Viewers : FeedViewerAcquire(v)
  \/ \E v \in Viewers : ViewerRead(v)
  \/ \E v \in Viewers : ViewerEmit(v)

SpecFeed == Init /\ [][NextFeed]_vars

\* the position in the source of the frame an encoded frame shows
FrameIndex(bytes) == IF bytes = NoFrame THEN 0 ELSE bytes[3]

\* C17: the frame slot of a camera only ever moves to a frame the source
\* delivered later, and the parts a generator yields are in source order
C17_PublishedInSourceOrder ==
  [][/\ \A c \in AppCameras :
          output_frames'[c] # output_frames[c] =>
             FrameIndex(output_frames'[c]) > FrameIndex(output_frames[c])
     /\ \A v \in Viewers : \A i, j \in 1..Len(emits'[v]) :
          i < j => FrameIndex(emits'[v][i]) <= FrameIndex(emits'[v][j])]_vars

C17_Witness ==
  /\ Len(emits["v1"]) = 2
  /\ FrameIndex(emits["v1"][1]) < FrameIndex(emits["v1"][2])
  /\ lastExit["c1"] = "read_failed"
  /\ output_frames["c1"] = Jpeg("c1", 3)

\* the worker has left the read loop on a failure and has not reopened the
\* source
Disconnected(c) ==
  /\ lastExit[c] \in {"read_failed", "exception"}
  /\ pc[c] \in {"backoff5", "finally", "connect"}

\* C18: a generator that reads the frame slot while the camera's worker is
\* disconnected gets no frame
C18_NoFramesWhileDisconnected ==
  [][\A v \in Viewers :
       (vpc[v] = "locked" /\ vpc'[v] = "got" /\ Disconnected(ViewerCamera[v])) =>
          vframe'[v] = NoFrame]_vars

(***************************************************************************)
(* SpecW1: one worker1.py worker, the store going down and coming back,    *)
(* and the get_stats requests of index.py, which reads what worker1.py     *)
(* writes.                                                                 *)
(***************************************************************************)
MaxW1Frames == 4

W1Camera == "c1"

W1Classes == {2, 3}

W1Detections == [track_id : TrackIds, cls : W1Classes, y : Ys]

\* track.append(int(y)); if len(track) > 2: track.pop(0)
W1AppendY(th, track_id, y) ==
  LET old == IF track_id \in DOMAIN th THEN th[track_id] ELSE <<>>
      new == Append(old, y)
      kept == IF Len(new) > 2 THEN Tail(new) ELSE new
  IN [t \in (DOMAIN th) \cup {track_id} |-> IF t = track_id THEN kept ELSE th[t]]

\* len(track) == 2 and (track[0] < line_y and track[1] >= line_y)
W1Crosses(track, ly) == Len(track) = 2 /\ track[1] < ly /\ track[2] >= ly

W1UpdateDailyStatsRetried(coll, camera_id, today_str, class_id, storeUp) ==
  IF class_id \notin DOMAIN CLASS_NAMES_MAP THEN coll
  ELSE UpdateOne(coll, FieldsQuery(camera_id, today_str),
                 Worker1Update(camera_id, today_str, CLASS_NAMES_MAP[class_id]), Oid(coll))

\* worker1.py update_daily_stats(camera_id, class_id): the collection after
\* the call; an exception of update_one is caught and printed
W1UpdateDailyStats(coll, camera_id, today_str, class_id, storeUp) ==
  IF class_id \notin DOMAIN CLASS_NAMES_MAP THEN coll
  ELSE IF ~storeUp \/ Conflict(Worker1Update(camera_id, today_str, CLASS_NAMES_MAP[class_id]))
    THEN coll
  ELSE UpdateOne(coll, FieldsQuery(camera_id, today_str),
                 Worker1Update(camera_id, today_str, CLASS_NAMES_MAP[class_id]), Oid(coll))

\* the store write of a crossing of class class_id goes through
W1Written(camera_id, today_str, class_id, storeUp) ==
  /\ class_id \in DOMAIN CLASS_NAMES_MAP
  /\ storeUp
  /\ ~Conflict(Worker1Update(camera_id, today_str, CLASS_NAMES_MAP[class_id]))

\* cap = cv2.VideoCapture(rtsp_url); an unopened source sends the thread to
\* time.sleep(15) and continue
W1Open(c) ==
  /\ pc[c] = "connect"
  /\ \/ /\ \E h \in Heights : line_y' = [line_y EXCEPT ![c] = LineY(h)]
        /\ cap' = [cap EXCEPT ![c] = "opened"]
        /\ pc' = [pc EXCEPT ![c] = "read"]
        /\ openFails' = [openFails EXCEPT ![c] = 0]
        /\ UNCHANGED <<lastExit, backedOff>>
     \/ /\ openFails[c] < MaxOpenFails
        /\ cap' = [cap EXCEPT ![c] = "failed"]
        /\ pc' = [pc EXCEPT ![c] = "sleep15"]
        /\ openFails' = [openFails EXCEPT ![c] = @ + 1]
        /\ lastExit' = [lastExit EXCEPT ![c] = "open_failed"]
        /\ backedOff' = [backedOff EXCEPT ![c] = FALSE]
        /\ UNCHANGED line_y
  /\ UNCHANGED <<fps, track_history, frameNo, cur, crossed, lastCrossed>>
  /\ UNCHANGED <<storeVars, frameVars, viewerVars, scnVars, scnFrame>>

\* ret, frame = cap.read(); if not ret: break
W1ReadFail(c) ==
  /\ pc[c] = "read"
  /\ pc' = [pc EXCEPT ![c] = "finally"]
  /\ lastExit' = [lastExit EXCEPT ![c] = "read_failed"]
  /\ backedOff' = [backedOff EXCEPT ![c] = FALSE]
  /\ UNCHANGED <<cap, line_y, fps, track_history, frameNo, cur, openFails, crossed, lastCrossed>>
  /\ UNCHANGED <<storeVars, frameVars, viewerVars, scnVars, scnFrame>>

\* one iteration of the read loop: model.track, then for every detection the
\* history update, the crossing test, update_daily_stats and the pop
W1Frame(c) ==
  /\ pc[c] = "read"
  /\ frameNo[c] < MaxW1Frames
  /\ frameNo' = [frameNo EXCEPT ![c] = @ + 1]
  /\ \/ \* model.track raises: except Exception, time.sleep(10)
        /\ pc' = [pc EXCEPT ![c] = "sleep10"]
        /\ lastExit' = [lastExit EXCEPT ![c] = "exception"]
        /\ backedOff' = [backedOff EXCEPT ![c] = FALSE]
        /\ UNCHANGED <<track_history, stats_collection, crossed, lastCrossed, lost>>
     \/ \E d \in W1Detections :
          LET th1 == W1AppendY(track_history[c], d.track_id, d.y)
              crossing == W1Crosses(th1[d.track_id], line_y[c])
              written == W1Written(c, today, d.cls, store_up)
              k == <<c, CounterField(CLASS_NAMES_MAP[d.cls])>>
          IN /\ track_history' = [track_history EXCEPT ![c] =
                                    IF crossing THEN PopTrack(th1, d.track_id) ELSE th1]
             /\ stats_collection' = IF crossing
                                      THEN W1UpdateDailyStats(stats_collection, c, today,
                                                              d.cls, store_up)
                                      ELSE stats_collection
             /\ crossed' = IF crossing /\ written THEN [crossed EXCEPT ![k] = @ + 1] ELSE crossed
             /\ lost' = IF crossing /\ ~written THEN lost + 1 ELSE lost
             /\ lastCrossed' = [lastCrossed EXCEPT ![c] = IF crossing THEN {d.track_id} ELSE {}]
             /\ UNCHANGED <<pc, lastExit, backedOff>>
  /\ UNCHANGED <<cap, line_y, fps, cur, openFails>>
  /\ UNCHANGED <<collection_bool, today, frameVars, viewerVars, store_up, response,
                 delivered, appended, scnFrame>>

\* time.sleep(15) or time.sleep(10) returns; the finally clause is next
W1Sleep(c) ==
  /\ pc[c] \in {"sleep15", "sleep10"}
  /\ pc' = [pc EXCEPT ![c] = "finally"]
  /\ UNCHANGED <<cap, line_y, fps, track_history, frameNo, cur, lastExit, backedOff,
                 openFails, crossed, lastCrossed>>
  /\ UNCHANGED <<storeVars, frameVars, viewerVars, scnVars, scnFrame>>

\* finally: if cap is not None and cap.isOpened(): cap.release()
W1Finally(c) ==
  /\ pc[c] = "finally"
  /\ cap' = [cap EXCEPT ![c] = IF @ = "opened" THEN "released" ELSE @]
  /\ pc' = [pc EXCEPT ![c] = "sleep5"]
  /\ UNCHANGED <<line_y, fps, track_history, frameNo, cur, lastExit, backedOff,
                 openFails, crossed, lastCrossed>>
  /\ UNCHANGED <<storeVars, frameVars, viewerVars, scnVars, scnFrame>>

\* the time.sleep(5) of the finally clause returns; next iteration of while True
W1Backoff(c) ==
  /\ pc[c] = "sleep5"
  /\ pc' = [pc EXCEPT ![c] = "connect"]
  /\ backedOff' = [backedOff EXCEPT ![c] = TRUE]
  /\ UNCHANGED <<cap, line_y, fps, track_history, frameNo, cur, lastExit,
                 openFails, crossed, lastCrossed>>
  /\ UNCHANGED <<storeVars, frameVars, viewerVars, scnVars, scnFrame>>

NextW1 ==
  \/ \E c \in AppCameras : W1Open(c)
  \/ \E c \in AppCameras : W1ReadFail(c)
  \/ \E c \in AppCameras : W1Frame(c)
  \/ \E c \in AppCameras : W1Sleep(c)
  \/ \E c \in AppCameras : W1Finally(c)
  \/ \E c \in AppCameras : W1Backoff(c)
  \/ GetStatsIndex(W1Camera)
  \/ StoreFlip

SpecW1 == InitScn /\ [][NextW1]_vars

\* C19: a crossing whose store write failed is never written later: every
\* counter equals the number of crossings whose write went through, also
\* after the store is reachable again, and the worker thread never ends
C19_FailedWriteIsLost ==
  \A c \in AppCameras :
     /\ \A f \in CounterFields :
          CounterOf(stats_collection, "worker1", c, today, f) = crossed[<<c, f>>]
     /\ pc[c] \in {"connect", "read", "sleep15", "sleep10", "finally", "sleep5"}

C19_Witness ==
  /\ lost >= 1
  /\ store_up
  /\ crossed[<<W1Camera, "total_car">>] = 1
  /\ CounterOf(stats_collection, "worker1", W1Camera, today, "total_car") = 1
  /\ lastExit[W1Camera] = "read_failed"
  /\ pc[W1Camera] = "read"

\* C20: a get_stats request of index.py made while the store does not answer
\* returns status 500, and a request returns the all-zero default body only
\* when it reached the store and found no document for (camera_id, today)
C20_UnreachableStoreIsAnError ==
  [][(UNCHANGED <<pc, frameNo, store_up>> /\ response'.route = "index") =>
       /\ ~store_up => response'.status = 500
       /\ response'.status \in {200, 500}
       /\ (response'.status = 200 /\ DOMAIN response'.body = CounterFields \cup {"average_speed"}) =>
            /\ store_up
            /\ response'.reached
            /\ FindOne(stats_collection, FieldsQuery(W1Camera, today)) = NoDoc]_vars

C20_Witness ==
  /\ response.route = "index"
  /\ response.status = 500
  /\ ~store_up
  /\ stats_collection # <<>>

\* C21: the parts a generator yields are the published frames one by one:
\* no frame is yielded twice and, between two parts, no published frame is
\* left out
C21_OnePartPerPublishedFrame ==
  \A v \in Viewers : \A i \in 1..Len(emits[v]) :
     /\ \A j \in 1..Len(emits[v]) : i # j => emits[v][i] # emits[v][j]
     /\ i > 1 => FrameIndex(emits[v][i]) = FrameIndex(emits[v][i - 1]) + 1

\* C22: worker1.py counts a crossing whenever the last two samples of a track
\* satisfy the rule (prev_y < line_y and curr_y >= line_y) or
\* (prev_y > line_y and curr_y <= line_y): a frame that keeps the track's
\* entry has appended a sample that does not cross, in either direction
C22_CrossingRuleBothDirections ==
  [][\A c \in AppCameras, t \in TrackIds :
       (/\ frameNo'[c] = frameNo[c] + 1
        /\ pc'[c] = "read"
        /\ t \in DOMAIN track_history[c]
        /\ t \in DOMAIN track_history'[c]) =>
          LET old == track_history[c][t]
              new == track_history'[c][t]
          IN ~Crosses(old[Len(old)], new[Len(new)], line_y[c])]_vars

\* ---------------------------------------------------------------------
\* SpecConn: the connect step of the workers that estimate speed
\* (app.py, worker.py, video_processor.py): the frame rate the source
\* reports and the frame rate the worker keeps for the speed formula.

MaxReportedFps == 30

\* values of cap.get(cv2.CAP_PROP_FPS); 0 is what OpenCV returns when the
\* source reports none
ReportedFps == 0..MaxReportedFps

ConnVariants == {"app", "worker", "video_processor"}

\* the fps each variant keeps after cap.get(cv2.CAP_PROP_FPS)
FpsAtConnect(v, reported) ==
  IF v = "video_processor" THEN ConnectFpsVP(reported) ELSE ConnectFps(reported)

InitConn ==
  /\ InitStore
  /\ collection_bool = "truthy"
  /\ variant \in ConnVariants
  /\ wpc = [w \in Writers |-> "idle"]
  /\ wreq = [w \in Writers |-> NoReq]
  /\ ncalls = [w \in Writers |-> 0]
  /\ issued = [k \in AggKeys |-> 0]
  /\ raised = 0
  /\ IdleApp
  /\ IdleVP
  /\ IdleSup
  /\ IdleScn

\* cap = cv2.VideoCapture(rtsp_url) opened; height, fps and line_y are read
ConnOpen(c) ==
  /\ pc[c] \in {"unstarted", "connect"}
  /\ \E h \in Heights, r \in ReportedFps :
       /\ reported_fps' = r
       /\ fps' = [fps EXCEPT ![c] = FpsAtConnect(variant, r)]
       /\ line_y' = [line_y EXCEPT ![c] = LineY(h)]
  /\ cap' = [cap EXCEPT ![c] = "open"]
  /\ pc' = [pc EXCEPT ![c] = "read"]
  /\ UNCHANGED <<storeVars, aggVars, track_history, frameNo, cur, lastExit,
                 backedOff, openFails, crossed, lastCrossed, frameVars,
                 viewerVars, vpVars, supVars, scnVars, lock_objects,
                 lock_index, got_lock>>

\* ret is False: the loop breaks, cap.release(), and the worker reconnects
ConnRelease(c) ==
  /\ pc[c] = "read"
  /\ cap' = [cap EXCEPT ![c] = "released"]
  /\ pc' = [pc EXCEPT ![c] = "connect"]
  /\ UNCHANGED <<storeVars, aggVars, line_y, fps, track_history, frameNo, cur,
                 lastExit, backedOff, openFails, crossed, lastCrossed,
                 frameVars, viewerVars, vpVars, supVars, scnVars, auxVars>>

NextConn == \E c \in AppCameras : ConnOpen(c) \/ ConnRelease(c)

SpecConn == InitConn /\ [][NextConn]_vars

\* C23: in every variant that estimates speed, a connected worker uses
\* fps = 25 in the speed formula when the source reported 0, and the
\* reported frame rate otherwise
C23_FpsDefaultIs25 ==
  \A c \in AppCameras :
     pc[c] = "read" =>
       LET expected == IF reported_fps = 0 THEN 25 ELSE reported_fps
       IN /\ fps[c] = expected
          /\ SpeedKmh(<<0, 0>>, <<3, 4>>, fps[c]) = 5 * expected * 36

\* C24: a get_stats request of app.py that reaches the store returns, for
\* each class, the number of crossing events recorded for (camera_id, today),
\* and an average_speed that is the mean of their speed samples (so above 0
\* as soon as one event was recorded)
C24_StatsMatchRecordedEvents ==
  [][(AppRequestStep /\ response'.status = 200) =>
        /\ \A f \in CounterFields :
              response'.body[f] = crossed[<<ScnCamera, f>>]
        /\ (\E f \in CounterFields : crossed[<<ScnCamera, f>>] > 0)
              => response'.body["average_speed"] > 0]_vars

\* ---------------------------------------------------------------------
\* SpecVPLive: SpecVP with the scheduling a stop() relies on.  The worker
\* is a started thread: whenever it has a next step (a source read, a
\* detector call and a sleep all return) it takes it, and join() returns
\* once the thread it waits for has ended.

VPThreadStep(t) ==
  \/ ConnectDb(t)
  \/ OuterCheck(t)
  \/ VPOpen(t)
  \/ VPSleep(t)
  \/ InnerCheck(t)
  \/ VPReadFail(t)
  \/ VPProcessFrame(t)
  \/ VPPublish(t)
  \/ VPRelease(t)

SpecVPLive ==
  /\ SpecVP
  /\ \A t \in Threads : WF_vars(VPThreadStep(t))
  /\ \A k \in Callers : WF_vars(StopJoin(k))

\* C25: once stop() has set is_running to False and waits in join(), the
\* worker thread eventually ends and stop() returns, whatever the worker
\* was doing; the thread ends only where it tests the flag or where an
\* exception leaves _process_stream, never in the middle of another call
C25_StopTerminates ==
  /\ \A k \in Callers :
        (kpc[k] = "join") ~>
          (kpc[k] = "idle" /\ \A t \in Threads : tpc[t] \in {"unborn", "ended"})
  /\ [][\A t \in Threads :
          (tpc[t] # "ended" /\ tpc'[t] = "ended") =>
             \/ tpc[t] = "outer" /\ ~is_running
             \/ tpc[t] = "read"]_vars

\* stop() has returned after waiting for a thread that was streaming
C25_Witness ==
  /\ kpc["k1"] = "idle"
  /\ ~is_running
  /\ thread = "t1"
  /\ tpc["t1"] = "ended"
  /\ tcap["t1"] = "released"
  /\ latest_frame # NoFrame

\* ---------------------------------------------------------------------
\* SpecIso: two cameras of app.py, each with its own worker thread, and one
\* viewer per camera.  track_history is a local of each worker; the slots
\* and the locks are entries of the shared dictionaries output_frames and
\* frame_locks under the camera's id.

MaxIsoFrames == 2

IsoCameras == {"c1", "c2"}

IsoViewers == {"v1", "v3"}

IsoYs == {1, 3}

IsoClasses == {0, 2}

IsoDetections == [track_id : TrackIds, cls : IsoClasses, x : Xs, y : IsoYs]

InitIso ==
  /\ InitStore
  /\ collection_bool = "truthy"
  /\ IdleAgg
  /\ IdleVP
  /\ IdleSup
  /\ IdleScn
  /\ pc = [c \in IsoCameras |-> "connect"]
  /\ cap = [c \in IsoCameras |-> "unset"]
  /\ line_y = [c \in IsoCameras |-> 0]
  /\ fps = [c \in IsoCameras |-> 0]
  /\ track_history = [c \in IsoCameras |-> EmptyFcn]
  /\ frameNo = [c \in IsoCameras |-> 0]
  /\ cur = [c \in IsoCameras |-> 0]
  /\ lastExit = [c \in IsoCameras |-> "none"]
  /\ backedOff = [c \in IsoCameras |-> FALSE]
  /\ openFails = [c \in IsoCameras |-> 0]
  /\ crossed = [k \in IsoCameras \X CounterFields |-> 0]
  /\ lastCrossed = [c \in IsoCameras |-> {}]
  /\ output_frames = [c \in IsoCameras |-> NoFrame]
  /\ frame_locks = [c \in IsoCameras |-> None]
  /\ lastPublished = [c \in IsoCameras |-> NoFrame]
  /\ vpc = [v \in IsoViewers |-> "sleep"]
  /\ vframe = [v \in IsoViewers |-> NoFrame]
  /\ emits = [v \in IsoViewers |-> <<>>]

\* one iteration of the read loop of camera c on a frame with one detection,
\* the encode and the store under the camera's lock included
IsoFrame(c) ==
  /\ pc[c] = "read"
  /\ frameNo[c] < MaxIsoFrames
  /\ frameNo' = [frameNo EXCEPT ![c] = @ + 1]
  /\ cur' = [cur EXCEPT ![c] = frameNo[c] + 1]
  /\ \E d \in IsoDetections :
       LET st0 == [th |-> track_history[c], coll |-> stats_collection,
                   crossed |-> crossed, lc |-> {}, exc |-> FALSE]
           st == ProcessDets(c, <<d>>, 1, st0, "none", line_y[c], fps[c], today)
       IN /\ track_history' = [track_history EXCEPT ![c] = st.th]
          /\ stats_collection' = st.coll
          /\ crossed' = st.crossed
          /\ lastCrossed' = [lastCrossed EXCEPT ![c] = st.lc]
          /\ IF st.exc
               THEN /\ pc' = [pc EXCEPT ![c] = ExceptPc]
                    /\ lastExit' = [lastExit EXCEPT ![c] = "exception"]
                    /\ backedOff' = [backedOff EXCEPT ![c] = FALSE]
                    /\ UNCHANGED <<output_frames, lastPublished>>
               ELSE /\ frame_locks[c] = None
                    /\ output_frames' = StoreFrame(output_frames, c, Jpeg(c, frameNo[c] + 1))
                    /\ lastPublished' = [lastPublished EXCEPT ![c] = Jpeg(c, frameNo[c] + 1)]
                    /\ UNCHANGED <<pc, lastExit, backedOff>>
  /\ UNCHANGED <<cap, line_y, fps, openFails, frame_locks>>
  /\ UNCHANGED <<collection_bool, today, viewerVars, appFrame>>

NextIso ==
  \/ \E c \in IsoCameras : OpenOk(c)
  \/ \E c \in IsoCameras : ReadFail(c)
  \/ \E c \in IsoCameras : IsoFrame(c)
  \/ \E c \in IsoCameras : Sleep(c)
  \/ \E c \in IsoCameras : Finally(c)
  \/ \E v \in IsoViewers : ViewerAcquire(v)
  \/ \E v \in IsoViewers : ViewerRead(v)
  \/ \E v \in IsoViewers : ViewerEmit(v)

SpecIso == InitIso /\ [][NextIso]_vars

\* the state of one camera's worker, its track history and its slot
CameraState(c) ==
  <<pc[c], cap[c], line_y[c], fps[c], track_history[c], frameNo[c], cur[c],
    lastExit[c], output_frames[c]>>

\* the camera a published frame came from
FrameCamera(frame) == frame[2]

\* C26: a step of camera A's worker leaves camera B's track history, slot
\* and worker state as they were, for all distinct cameras A and B, and no
\* viewer of B holds or yields a frame published by A
C26_CamerasIsolated ==
  /\ [][\A a \in IsoCameras, b \in IsoCameras :
          (a # b /\ CameraState(a)' # CameraState(a)) =>
             CameraState(b)' = CameraState(b)]_vars
  /\ [](\A v \in IsoViewers :
          /\ vframe[v] # NoFrame => FrameCamera(vframe[v]) = ViewerCamera[v]
          /\ \A i \in 1..Len(emits[v]) : FrameCamera(emits[v][i]) = ViewerCamera[v])

\* both workers have published, camera c1 went through a failure and a
\* reconnect, and the viewer of c2 has yielded a frame
C26_Witness ==
  /\ output_frames["c1"] # NoFrame
  /\ output_frames["c2"] # NoFrame
  /\ lastExit["c1"] = "exception"
  /\ cap["c1"] = "opened"
  /\ pc["c1"] = "read"
  /\ track_history["c2"] # EmptyFcn
  /\ emits["v3"] # <<>>

\* ---------------------------------------------------------------------
\* SpecDay: the two workers of SpecIso over a change of calendar date.
\* update_daily_stats reads datetime.now() on every call, so the key of
\* the aggregate follows the clock.

DayDates == <<"d1", "d2">>

\* midnight passes: datetime.now().strftime("%Y-%m-%d") gives the next date
DayChange ==
  /\ \E i \in 1..(Len(DayDates) - 1) :
       /\ today = DayDates[i]
       /\ today' = DayDates[i + 1]
  /\ UNCHANGED <<stats_collection, collection_bool, appVars, appFrame>>

NextDay ==
  \/ \E c \in IsoCameras : OpenOk(c)
  \/ \E c \in IsoCameras : ReadFail(c)
  \/ \E c \in IsoCameras : IsoFrame(c)
  \/ \E c \in IsoCameras : Sleep(c)
  \/ \E c \in IsoCameras : Finally(c)
  \/ DayChange

SpecDay == InitIso /\ [][NextDay]_vars

\* C27: a step in which camera c records a crossing event of a class on
\* date today leaves an aggregate keyed (c, today) holding the event, which
\* starts from zero when the key is new, and leaves every other aggregate
\* in the collection, with its values
C27_OnlyOwnAggregateChanges ==
  [][\A c \in IsoCameras, f \in CounterFields :
       crossed'[<<c, f>>] = crossed[<<c, f>>] + 1 =>
         LET before == FindOne(stats_collection, AppQuery(c, today))
             after == FindOne(stats_collection', AppQuery(c, today))
         IN /\ after # NoDoc
            /\ after[f] = (IF before = NoDoc THEN 0 ELSE before[f]) + 1
            /\ \A g \in CounterFields \ {f} :
                  after[g] = (IF before = NoDoc THEN 0 ELSE before[g])
            /\ \A i \in 1..Len(stats_collection) :
                  stats_collection[i]["_id"] # DocId(c, today) =>
                    \E j \in 1..Len(stats_collection') :
                       stats_collection'[j] = stats_collection[i]]_vars

\* ---------------------------------------------------------------------
\* SpecLock: frame_locks = defaultdict(Lock) with its entries created on
\* first access.  lock_index is the dictionary, lock_objects the Lock
\* objects that exist with their holder, got_lock the object each thread's
\* evaluation of frame_locks[camera_id] returned.  The worker thread of a
\* camera is named by the camera's id.

MaxLockFrames == 2

MaxLockEmits == 1

FrameLocksRacy(index, objects, camera_id) ==
  LET fresh == Len(objects) + 1
  IN [lock |-> fresh,
      index |-> (camera_id :> fresh) @@ index,
      objects |-> Append(objects, None)]

\* frame_locks[camera_id]: dict lookup and, on a miss, defaultdict's
\* __missing__, which calls Lock() and stores the result.  Lookup, factory
\* and store are C code that runs without a bytecode boundary, so under
\* the interpreter lock the whole expression is one step
FrameLocks(index, objects, camera_id) ==
  IF camera_id \in DOMAIN index
    THEN [lock |-> index[camera_id], index |-> index, objects |-> objects]
    ELSE LET fresh == Len(objects) + 1
         IN [lock |-> fresh,
             index |-> (camera_id :> fresh) @@ index,
             objects |-> Append(objects, None)]

InitLock ==
  /\ InitStore
  /\ collection_bool = "truthy"
  /\ IdleAgg
  /\ IdleVP
  /\ IdleSup
  /\ IdleRequests
  /\ reported_fps = 0
  /\ lock_objects = <<>>
  /\ lock_index = EmptyFcn
  /\ got_lock = EmptyFcn
  /\ pc = [c \in AppCameras |-> "read"]
  /\ cap = [c \in AppCameras |-> "opened"]
  /\ line_y = [c \in AppCameras |-> LineY(4)]
  /\ fps = [c \in AppCameras |-> 25]
  /\ track_history = [c \in AppCameras |-> EmptyFcn]
  /\ frameNo = [c \in AppCameras |-> 0]
  /\ cur = [c \in AppCameras |-> 0]
  /\ lastExit = [c \in AppCameras |-> "none"]
  /\ backedOff = [c \in AppCameras |-> FALSE]
  /\ openFails = [c \in AppCameras |-> 0]
  /\ crossed = [k \in AppCameras \X CounterFields |-> 0]
  /\ lastCrossed = [c \in AppCameras |-> {}]
  /\ output_frames = [c \in AppCameras |-> NoFrame]
  /\ frame_locks = [c \in AppCameras |-> None]
  /\ lastPublished = [c \in AppCameras |-> NoFrame]
  /\ vpc = [v \in Viewers |-> "sleep"]
  /\ vframe = [v \in Viewers |-> NoFrame]
  /\ emits = [v \in Viewers |-> <<>>]

\* a frame is read and annotated, no detection in it
LockFrame(c) ==
  /\ pc[c] = "read"
  /\ frameNo[c] < MaxLockFrames
  /\ frameNo' = [frameNo EXCEPT ![c] = @ + 1]
  /\ cur' = [cur EXCEPT ![c] = frameNo[c] + 1]
  /\ pc' = [pc EXCEPT ![c] = "publish"]
  /\ UNCHANGED <<cap, line_y, fps, track_history, lastExit, backedOff, openFails,
                 crossed, lastCrossed, frameVars, viewerVars>>
  /\ UNCHANGED <<storeVars, aggVars, vpVars, supVars, scnVars, auxVars>>

\* the worker evaluates frame_locks[camera_id]
WorkerLookup(c) ==
  /\ pc[c] = "publish"
  /\ LET r == FrameLocks(lock_index, lock_objects, c)
     IN /\ lock_index' = r.index
        /\ lock_objects' = r.objects
        /\ got_lock' = (c :> r.lock) @@ got_lock
  /\ pc' = [pc EXCEPT ![c] = "enter"]
  /\ UNCHANGED <<cap, line_y, fps, track_history, frameNo, cur, lastExit, backedOff,
                 openFails, crossed, lastCrossed, frameVars, viewerVars>>
  /\ UNCHANGED <<storeVars, aggVars, vpVars, supVars, scnVars, reported_fps>>

\* with <lock>: __enter__ acquires the object the worker got
WorkerEnter(c) ==
  /\ pc[c] = "enter"
  /\ lock_objects[got_lock[c]] = None
  /\ lock_objects' = [lock_objects EXCEPT ![got_lock[c]] = c]
  /\ pc' = [pc EXCEPT ![c] = "locked"]
  /\ UNCHANGED <<cap, line_y, fps, track_history, frameNo, cur, lastExit, backedOff,
                 openFails, crossed, lastCrossed, frameVars, viewerVars>>
  /\ UNCHANGED <<storeVars, aggVars, vpVars, supVars, scnVars, reported_fps,
                 lock_index, got_lock>>

\* output_frames[camera_id] = buffer.tobytes(), and __exit__ releases
WorkerStore(c) ==
  /\ pc[c] = "locked"
  /\ output_frames' = StoreFrame(output_frames, c, Jpeg(c, cur[c]))
  /\ lastPublished' = [lastPublished EXCEPT ![c] = Jpeg(c, cur[c])]
  /\ lock_objects' = [lock_objects EXCEPT ![got_lock[c]] = None]
  /\ pc' = [pc EXCEPT ![c] = "read"]
  /\ UNCHANGED <<cap, line_y, fps, track_history, frameNo, cur, lastExit, backedOff,
                 openFails, crossed, lastCrossed, frame_locks, viewerVars>>
  /\ UNCHANGED <<storeVars, aggVars, vpVars, supVars, scnVars, reported_fps,
                 lock_index, got_lock>>

\* time.sleep(0.04) returns and the generator evaluates frame_locks[camera_id]
ViewerLookup(v) ==
  /\ vpc[v] = "sleep"
  /\ Len(emits[v]) < MaxLockEmits
  /\ LET r == FrameLocks(lock_index, lock_objects, ViewerCamera[v])
     IN /\ lock_index' = r.index
        /\ lock_objects' = r.objects
        /\ got_lock' = (v :> r.lock) @@ got_lock
  /\ vpc' = [vpc EXCEPT ![v] = "enter"]
  /\ UNCHANGED <<workerVars, frameVars, vframe, emits>>
  /\ UNCHANGED <<storeVars, aggVars, vpVars, supVars, scnVars, reported_fps>>

\* with <lock>: __enter__ acquires the object the generator got
ViewerEnter(v) ==
  /\ vpc[v] = "enter"
  /\ lock_objects[got_lock[v]] = None
  /\ lock_objects' = [lock_objects EXCEPT ![got_lock[v]] = v]
  /\ vpc' = [vpc EXCEPT ![v] = "locked"]
  /\ UNCHANGED <<workerVars, frameVars, vframe, emits>>
  /\ UNCHANGED <<storeVars, aggVars, vpVars, supVars, scnVars, reported_fps,
                 lock_index, got_lock>>

\* frame = output_frames.get(camera_id), and __exit__ releases
ViewerExit(v) ==
  /\ vpc[v] = "locked"
  /\ vframe' = [vframe EXCEPT ![v] = SlotGet(output_frames, ViewerCamera[v])]
  /\ lock_objects' = [lock_objects EXCEPT ![got_lock[v]] = None]
  /\ vpc' = [vpc EXCEPT ![v] = "got"]
  /\ UNCHANGED <<workerVars, frameVars, emits>>
  /\ UNCHANGED <<storeVars, aggVars, vpVars, supVars, scnVars, reported_fps,
                 lock_index, got_lock>>

NextLock ==
  \/ \E c \in AppCameras : LockFrame(c)
  \/ \E c \in AppCameras : WorkerLookup(c)
  \/ \E c \in AppCameras : WorkerEnter(c)
  \/ \E c \in AppCameras : WorkerStore(c)
  \/ \E v \in Viewers : ViewerLookup(v)
  \/ \E v \in Viewers : ViewerEnter(v)
  \/ \E v \in Viewers : ViewerExit(v)
  \/ \E v \in Viewers : ViewerEmit(v)

SpecLock == InitLock /\ [][NextLock]_vars

\* the threads that are inside "with frame_locks[c]"
InRegion(c) ==
  {t \in AppCameras : t = c /\ pc[t] = "locked"}
    \cup {v \in Viewers : ViewerCamera[v] = c /\ vpc[v] = "locked"}

\* the threads that access the slot of camera c
SlotThreads(c) == {c} \cup {v \in Viewers : ViewerCamera[v] = c}

SpecFeedLive ==
  /\ SpecFeed
  /\ \A c \in AppCameras : SF_vars(PublishAcquire(c)) /\ WF_vars(PublishStore(c))
  /\ \A v \in Viewers :
        SF_vars(FeedViewerAcquire(v)) /\ WF_vars(ViewerRead(v)) /\ WF_vars(ViewerEmit(v))

\* C29: the frame lock is held only inside the locked regions and is given
\* back on every way out of them, a failed encode included; a worker that
\* asks for the lock for a publish, and a generator that asks for it for a
\* read, each gets it and leaves the region
C29_LockAlwaysReleased ==
  /\ [](\A c \in AppCameras :
          /\ frame_locks[c] = "worker" <=> pc[c] = "locked"
          /\ \A v \in Viewers :
                frame_locks[ViewerCamera[v]] = v <=> vpc[v] = "locked")
  /\ \A c \in AppCameras :
        (pc[c] = "publish") ~> (pc[c] \notin {"publish", "locked"})
  /\ \A v \in Viewers :
        (vpc[v] = "sleep" /\ Len(emits[v]) < MaxFeedEmits) ~> (vpc[v] = "got")
  /\ \A c \in AppCameras : (frame_locks[c] # None) ~> (frame_locks[c] = None)

\* the worker, back from an exception and a reconnect, waits to publish
\* while a viewer holds the lock
C29_Witness ==
  /\ pc["c1"] = "publish"
  /\ frame_locks["c1"] = "v1"
  /\ vpc["v2"] = "sleep"
  /\ lastExit["c1"] = "exception"
  /\ output_frames["c1"] = NoFrame
  /\ frameNo["c1"] = 2

MaxTrkFrames == 4

TrkCamera == "c1"

TrkIds == {1, 2}

TrkYs == {1, 2, 3}

TrkClasses == {0, 2}

TrkDetections == [track_id : TrkIds, cls : TrkClasses, x : Xs, y : TrkYs]

\* what results[0].boxes holds on one frame: nothing, or one box
TrkInputs == {<<>>} \cup {<<d>> : d \in TrkDetections}

\* one iteration of the read loop, the encode and the store under the
\* camera's lock included
TrkFrame(c) ==
  /\ pc[c] = "read"
  /\ Len(delivered) < MaxTrkFrames
  /\ frameNo' = [frameNo EXCEPT ![c] = @ + 1]
  /\ cur' = [cur EXCEPT ![c] = frameNo[c] + 1]
  /\ \E dets \in TrkInputs :
       LET st0 == [th |-> track_history[c], coll |-> stats_collection,
                   crossed |-> crossed, lc |-> {}, exc |-> FALSE]
           st == ProcessDets(c, dets, 1, st0, "none", line_y[c], fps[c], today)
       IN /\ track_history' = [track_history EXCEPT ![c] = st.th]
          /\ stats_collection' = st.coll
          /\ crossed' = st.crossed
          /\ lastCrossed' = [lastCrossed EXCEPT ![c] = st.lc]
          /\ delivered' = Append(delivered, dets)
          /\ IF st.exc
               THEN /\ pc' = [pc EXCEPT ![c] = ExceptPc]
                    /\ lastExit' = [lastExit EXCEPT ![c] = "exception"]
                    /\ backedOff' = [backedOff EXCEPT ![c] = FALSE]
                    /\ UNCHANGED <<output_frames, lastPublished>>
               ELSE /\ frame_locks[c] = None
                    /\ output_frames' = StoreFrame(output_frames, c, Jpeg(c, frameNo[c] + 1))
                    /\ lastPublished' = [lastPublished EXCEPT ![c] = Jpeg(c, frameNo[c] + 1)]
                    /\ UNCHANGED <<pc, lastExit, backedOff>>
  /\ UNCHANGED <<cap, line_y, fps, openFails, frame_locks>>
  /\ UNCHANGED <<collection_bool, today, viewerVars, store_up, response, appended, lost,
                 scnFrame>>

NextTrk ==
  \/ \E c \in AppCameras : OpenOk(c)
  \/ \E c \in AppCameras : ReadFail(c)
  \/ \E c \in AppCameras : TrkFrame(c)
  \/ \E c \in AppCameras : Sleep(c)
  \/ \E c \in AppCameras : Finally(c)

SpecTrk == InitScn /\ [][NextTrk]_vars

\* the step processes a frame on which track t is reported
ReportsTrack(t) ==
  /\ Len(delivered') = Len(delivered) + 1
  /\ delivered'[Len(delivered')] # <<>>
  /\ delivered'[Len(delivered')][1].track_id = t

\* C31: an entry leaves track_history only in a step that processes a frame
\* on which its track is reported on the other side of the line from its
\* last position; every other step, a reconnect included, keeps the entry,
\* and only a report of the track adds a position to it
C31_EntryRemovedOnlyByCrossing ==
  [][\A t \in TrkIds :
       t \in DOMAIN track_history[TrkCamera] =>
         LET old == track_history[TrkCamera][t]
         IN IF t \in DOMAIN track_history'[TrkCamera]
              THEN \/ track_history'[TrkCamera][t] = old
                   \/ /\ ReportsTrack(t)
                      /\ track_history'[TrkCamera][t]
                           = Append(old, <<delivered'[Len(delivered')][1].x,
                                          delivered'[Len(delivered')][1].y>>)
              ELSE /\ ReportsTrack(t)
                   /\ Crosses(old[Len(old)][2], delivered'[Len(delivered')][1].y,
                              line_y[TrkCamera])]_vars

\* after a processing failure and a reconnect the first sample of track 1
\* joined the two from before it, and track 2, reported once and then no
\* more, keeps its entry
C31_Witness ==
  /\ lastExit[TrkCamera] = "exception"
  /\ pc[TrkCamera] = "read"
  /\ cap[TrkCamera] = "opened"
  /\ 1 \in DOMAIN track_history[TrkCamera]
  /\ 2 \in DOMAIN track_history[TrkCamera]
  /\ Len(track_history[TrkCamera][1]) = 3

\* C32: whenever the worker records a crossing of a track, the track's
\* previous and current sample lie strictly on opposite sides of line_y
C32_CrossingStrictlyOpposite ==
  [][\A f \in CounterFields :
       crossed'[<<TrkCamera, f>>] > crossed[<<TrkCamera, f>>] =>
         LET d == delivered'[Len(delivered')][1]
             old == track_history[TrkCamera][d.track_id]
             prev_y == old[Len(old)][2]
             ly == line_y[TrkCamera]
         IN \/ prev_y < ly /\ d.y > ly
            \/ prev_y > ly /\ d.y < ly]_vars

\* C33: a record call is issued only in the step that processes a frame,
\* while that frame is not in the slot yet, and the frame a viewer holds was
\* processed to its end, record calls included, before it was stored: the
\* records of the crossings of frames up to n precede every view of frame n
C33_RecordBeforePublish ==
  /\ [][\A c \in AppCameras :
          (crossed' # crossed \/ stats_collection' # stats_collection) =>
             /\ frameNo'[c] = frameNo[c] + 1
             /\ output_frames'[c] = output_frames[c]
             /\ FrameIndex(output_frames[c]) < frameNo'[c]]_vars
  /\ [](\A c \in AppCameras :
          /\ FrameIndex(output_frames[c]) <= frameNo[c]
          /\ pc[c] \in {"publish", "locked"} => FrameIndex(output_frames[c]) < frameNo[c]
          /\ \A v \in Viewers :
                ViewerCamera[v] = c => FrameIndex(vframe[v]) <= FrameIndex(output_frames[c]))

\* a crossing of a car was recorded on frame 2, and a viewer holds frame 3
C33_Witness ==
  /\ crossed[<<"c1", "total_car">>] = 1
  /\ vframe["v1"] = Jpeg("c1", 3)

\* C34: for every monitored class the update command of worker1.py names
\* the incremented counter only under $inc and the three other counters
\* under $setOnInsert, no field under two operators, and an aggregate that
\* a record call creates has the recorded class at 1 and its siblings at 0
C34_Worker1UpdateHasNoConflict ==
  /\ [](\A cls \in DOMAIN CLASS_NAMES_MAP :
          LET u == Worker1Update(W1Camera, today, CLASS_NAMES_MAP[cls])
              f == CounterField(CLASS_NAMES_MAP[cls])
          IN /\ ~Conflict(u)
             /\ DOMAIN u.inc = {f}
             /\ f \notin DOMAIN u.setOnInsert
             /\ CounterFields \ {f} \subseteq DOMAIN u.setOnInsert)
  /\ [][Len(stats_collection') > Len(stats_collection) =>
          LET doc == stats_collection'[Len(stats_collection')]
          IN \E f \in CounterFields :
                /\ crossed'[<<W1Camera, f>>] = crossed[<<W1Camera, f>>] + 1
                /\ CounterFields \subseteq DOMAIN doc
                /\ doc[f] = 1
                /\ \A g \in CounterFields \ {f} : doc[g] = 0]_vars

\* the first crossing of the day, a motorcycle, has created the aggregate
C34_Witness ==
  /\ Len(stats_collection) = 1
  /\ stats_collection[1]["total_motorcycle"] = 1
  /\ stats_collection[1]["total_car"] = 0
  /\ stats_collection[1]["camera_id"] = W1Camera
  /\ crossed[<<W1Camera, "total_motorcycle">>] = 1

\* C35: a VideoProcessor worker has no source open when it attempts an
\* open and none when it has left _process_stream, however it left it, and
\* the threads of one processor hold at most one open source together
C35_SourceReleasedOnEveryExit ==
  /\ \A t \in Threads :
        tpc[t] \in {"connect", "ended"} => tcap[t] # "opened"
  /\ Cardinality({t \in Threads : tcap[t] = "opened"}) <= 1

\* C36: for every monitored class the update command of app.py names no
\* field under two update operators, and a step that detects a crossing of
\* a monitored class while the store is reachable raises the class's
\* counter and does not send the worker to its exception handler
C36_AppUpdateHasNoConflict ==
  [][\A cls \in DOMAIN CLASS_NAMES_MAP :
       LET f == CounterField(CLASS_NAMES_MAP[cls])
       IN crossed'[<<ScnCamera, f>>] = crossed[<<ScnCamera, f>>] + 1 =>
            /\ ~Conflict(AppUpdate(ScnCamera, today, CLASS_NAMES_MAP[cls], 0))
            /\ AppCounter(ScnCamera, f)' = AppCounter(ScnCamera, f) + 1
            /\ pc'[ScnCamera] = "read"]_vars

\* C37: in every aggregate that app.py's update_daily_stats has written,
\* the number of stored speed samples equals the sum of the four counters
C37_SpeedsMatchTotals ==
  variant = "app" =>
    \A i \in 1..Len(stats_collection) :
       LET doc == stats_collection[i]
       IN Len(IF "speeds" \in DOMAIN doc THEN doc["speeds"] ELSE <<>>)
            = FieldOr0(doc, "total_car") + FieldOr0(doc, "total_motorcycle")
                + FieldOr0(doc, "total_bus") + FieldOr0(doc, "total_truck")

\* C38: while is_running is True the processor's worker thread is alive,
\* and start() returns without starting a thread only when one is alive
C38_RunningImpliesAlive ==
  /\ [](is_running => (thread # None /\ tpc[thread] \notin {"unborn", "ended"}))
  /\ [][(nops' = nops + 1 /\ is_running /\ is_running' /\ kpc' = kpc)
          => \E t \in Threads : tpc[t] \notin {"unborn", "ended"}]_vars

\* ---------------------------------------------------------------------
\* SpecVPRace: one VideoProcessor whose start() and stop() are called from
\* two threads.  Neither method takes a lock: the test of is_running, the
\* assignments and the join are separate steps of each caller.

RaceCallers == {"k1", "k2"}

InitVPRace ==
  /\ InitStore
  /\ collection_bool = "truthy"
  /\ IdleAgg
  /\ IdleApp
  /\ IdleSup
  /\ IdleScn
  /\ is_running = FALSE
  /\ thread = None
  /\ vp_collection = None
  /\ daily_stats = ZeroCounters
  /\ latest_frame = NoFrame
  /\ vp_history = EmptyFcn
  /\ vp_frameNo = 0
  /\ tpc = [t \in Threads |-> "unborn"]
  /\ tcap = [t \in Threads |-> "unset"]
  /\ tline_y = [t \in Threads |-> 0]
  /\ tfps = [t \in Threads |-> 0]
  /\ kpc = [k \in RaceCallers |-> "idle"]
  /\ kjoin = [k \in RaceCallers |-> None]
  /\ nops = 0

NextVPRace ==
  \/ \E k \in RaceCallers : StartCheck(k)
  \/ \E k \in RaceCallers : StartThread(k)
  \/ \E k \in RaceCallers : StopSet(k)
  \/ \E k \in RaceCallers : StopJoin(k)
  \/ \E t \in Threads : VPThreadStep(t)

SpecVPRace == InitVPRace /\ [][NextVPRace]_vars

\* the worker threads that are running _process_stream
LiveThreads == {t \in Threads : tpc[t] \notin {"unborn", "ended"}}

\* C39: whatever the interleaving of the start() and stop() calls of
\* several threads, at most one worker thread of the processor is running
\* _process_stream
C39_AtMostOneWorker ==
  Cardinality(LiveThreads) <= 1

\* ---------------------------------------------------------------------
\* SpecVPDay: the VideoProcessor of SpecVP over a change of calendar date.
\* _update_daily_stats reads datetime.now() on every call; daily_stats is
\* set to zeros in __init__ and afterwards only incremented.

NextVPDay ==
  \/ NextVP
  \/ DayChange

SpecVPDay == InitVP /\ [][NextVPDay]_vars

\* get_stats(): return self.daily_stats
GetStats == daily_stats

\* total_<class> of the stored aggregate of (camera_id, today); an aggregate
\* or a field that does not exist counts as 0
PersistedTotal(f) ==
  FieldOr0(FindOne(stats_collection, FieldsQuery(VPCamera, today)), f)

\* C40: after any sequence of crossing events, store failures and date
\* changes, every counter total_<class> that get_stats returns equals
\* total_<class> of the persisted aggregate of (camera_id, today)
C40_StatsAgreeWithStore ==
  \A f \in CounterFields : GetStats[f] = PersistedTotal(f)
====
